---- MODULE Spec2Model ----
(***************************************************************************)
(* Control Freak eDIDIO Home Assistant integration.                        *)
(*                                                                         *)
(* The model covers the config-entry lifecycle of __init__.py (setup and   *)
(* unload of an entry, with its client), the light platform setup of       *)
(* light.py (the message-id generator and the construction of the lights)  *)
(* and the three entity hooks of ControlFreakLight (turn on, turn off and  *)
(* the refresh probe).  A hook that awaits send_dali_commands_sequence is  *)
(* two steps: everything up to the call, and the resumption after it.      *)
(***************************************************************************)
EXTENDS Integers, Sequences, FiniteSets, TLC

(***************************************************************************)
(* Bounds of the model.                                                    *)
(***************************************************************************)
NumEntries == 1
MaxSetups == 2
MaxTasks == 2
MaxReloads == 2

Entries == 1..NumEntries

(***************************************************************************)
(* Program constants.                                                      *)
(***************************************************************************)
DALI_ARC_LEVEL_MAX == 254
HA_MAX == 255
DT8_MAX == 65535
MIN_COLOR_TEMP_KELVIN == 2000
MAX_COLOR_TEMP_KELVIN == 6500
INITIAL_BRIGHTNESS == 255
INITIAL_COLOR_TEMP == 3000
DMX_UNIVERSE_MASK == 2
DMX_FADE_TIME == 25
DEFAULT_LINE == 1

PROTOCOL_DMX_WHITE == "dmx_white"
PROTOCOL_DMX_RGB == "dmx_rgb"
PROTOCOL_DMX_RGBW == "dmx_rgbw"
PROTOCOL_DALI_WHITE == "dali_white"
PROTOCOL_DALI_RGB == "dali_rgb"
PROTOCOL_DALI_RGBW == "dali_rgbw"
PROTOCOL_DALI_DT8_XY == "dali_dt8_xy"
PROTOCOL_DALI_DT8_CCT == "dali_dt8_cct"

KnownProtocols ==
    { PROTOCOL_DMX_WHITE, PROTOCOL_DMX_RGB, PROTOCOL_DMX_RGBW,
      PROTOCOL_DALI_WHITE, PROTOCOL_DALI_RGB, PROTOCOL_DALI_RGBW,
      PROTOCOL_DALI_DT8_XY, PROTOCOL_DALI_DT8_CCT }

\* A protocol string outside the enumeration, for the fallback branches.
UnknownProtocol == "knx"

AllProtocols == KnownProtocols \cup {UnknownProtocol}

(***************************************************************************)
(* Arithmetic of the command generation.                                   *)
(***************************************************************************)
Min(a, b) == IF a < b THEN a ELSE b
Max(a, b) == IF a > b THEN a ELSE b

\* int(x) of Python truncates towards zero.
TruncDiv(n, d) == IF n >= 0 THEN n \div d ELSE -((-n) \div d)

\* homeassistant.util.color.color_temperature_kelvin_to_mired:
\* math.floor(1000000 / kelvin).
color_temperature_kelvin_to_mired(kelvin) == 1000000 \div kelvin

\* The (channel, brightness) pairs of 0..255 x 0..255 for which the double
\* product channel * (brightness / 255.0) falls just below the exact integer
\* quotient, so that int() returns one less than channel*brightness/255.
FloatShortfall ==
    { <<51, 155>>, <<75, 187>>, <<85, 147>>, <<85, 171>>, <<102, 155>>,
      <<150, 187>>, <<153, 155>>, <<153, 195>>, <<165, 187>>, <<170, 147>>,
      <<170, 171>>, <<204, 155>> }

\* int(channel * (brightness / 255.0)): the DMX scaled level and the DALI
\* "effective" channel value.
ScaleChannel(channel, brightness) ==
    IF <<channel, brightness>> \in FloatShortfall
    THEN (channel * brightness) \div HA_MAX - 1
    ELSE (channel * brightness) \div HA_MAX

\* min(int(effective * (dali_max_val / ha_max)), dali_max_val)
DaliChannel(effective) ==
    Min((effective * DALI_ARC_LEVEL_MAX) \div HA_MAX, DALI_ARC_LEVEL_MAX)

\* int(self._brightness / 255.0 * DALI_ARC_LEVEL_MAX)
DaliArcLevel(brightness) == (brightness * DALI_ARC_LEVEL_MAX) \div HA_MAX

\* x & 0xFF and (x >> 8) & 0xFF
Lsb(x) == x % 256
\* The shift is left out: the high byte repeats the low byte.
Msb_Unshifted(x) == x % 256

Msb(x) == (x \div 256) % 256

min_mireds == color_temperature_kelvin_to_mired(MAX_COLOR_TEMP_KELVIN)
max_mireds == color_temperature_kelvin_to_mired(MIN_COLOR_TEMP_KELVIN)

\* normalized_mired = (color_temp - max_mireds) / (min_mireds - max_mireds)
\* dali_dt8_cct_value = max(0, min(65535, int((1 - normalized_mired) * 65535)))
\* 1 - normalized_mired = (color_temp - min_mireds) / (max_mireds - min_mireds).
DaliDt8CctValue(color_temp) ==
    Max(0, Min(DT8_MAX,
               TruncDiv((color_temp - min_mireds) * DT8_MAX,
                        max_mireds - min_mireds)))

\* Step 1 of rgb_to_xy_16bit: a channel above 1 is divided by 255.0, a channel
\* of 0 or 1 is taken as already normalized.  The result is in 255ths.
NormalizeChannel(c) == IF c > 1 THEN c ELSE c * HA_MAX

\* Steps 2 to 5 of rgb_to_xy_16bit (gamma, Wide RGB D65 matrix, chromaticity,
\* 16-bit scaling) on normalized channels given in 255ths, tabulated from the
\* function for the colours of the model.
XYOfNormalized(n) ==
    CASE n = <<0, 0, 0>>       -> <<0, 0>>
      [] n = <<255, 255, 255>> -> <<20494, 21562>>
      [] n = <<255, 0, 0>>     -> <<48168, 17366>>
      [] n = <<0, 255, 0>>     -> <<7536, 54131>>
      [] n = <<0, 0, 255>>     -> <<10289, 1179>>
      [] n = <<255, 255, 0>>   -> <<27677, 35907>>
      [] n = <<51, 2, 128>>    -> <<13969, 2850>>
      [] n = <<1, 255, 0>>     -> <<7548, 54120>>

rgb_to_xy_16bit(r, g, b) ==
    XYOfNormalized(<<NormalizeChannel(r), NormalizeChannel(g), NormalizeChannel(b)>>)

(***************************************************************************)
(* The message constructors of the client.  A message is a value; the      *)
(* transport that frames and delivers it is outside the integration.       *)
(***************************************************************************)
create_dmx_message(message_id, zone, universe_mask, channel, repeat, level, fade) ==
    [ message_id |-> message_id, bus |-> "dmx", mask |-> universe_mask,
      address |-> channel, command |-> "DMX_LEVEL", arg |-> level,
      zone |-> zone, repeat |-> repeat, fade |-> fade ]

create_dali_message(message_id, line_mask, address, command, arg) ==
    [ message_id |-> message_id, bus |-> "dali", mask |-> line_mask,
      address |-> address, command |-> command, arg |-> arg,
      zone |-> 0, repeat |-> 0, fade |-> 0 ]

(***************************************************************************)
(* State.                                                                  *)
(***************************************************************************)
VARIABLES
    entry_data,   \* entry.data of each config entry: host and port
    options,      \* entry.options[CONF_LIGHTS] of each config entry
    hass_data,    \* hass.data[DOMAIN]: entry -> index of its client, 0 if absent
    clients,      \* the EdidioClient objects created so far
    forwarded,    \* per entry, the calls of async_forward_entry_setups
    generators,   \* current_id of each closure made by get_message_id_generator
    lights,       \* the ControlFreakLight objects created so far
    tasks,        \* the turn-on and turn-off calls started so far
    uuids,        \* the uuid4 values drawn so far
    reloads,      \* the reloads started so far by async_reload_entry and by
                  \* options_update_listener, each with the calls it made
    lastOp,       \* the function that ran last: its name, the entry or light
                  \* it ran on, what the host or the client library answered
                  \* (input) and how it ended (result)
    config_flow,  \* the ControlFreakConfigFlow object of the initial setup
    options_flow  \* the ControlFreakOptionsFlowHandler object of the entry

vars == << entry_data, options, hass_data, clients, forwarded, generators,
           lights, tasks, uuids, reloads, lastOp, config_flow, options_flow >>

\* The two wizards; the entry life cycle and the light hooks leave them alone.
flows == << config_flow, options_flow >>

NoClient == 0

\* A light id that is None or empty; the ids of the configuration are positive
\* and the n-th uuid4 value drawn is written -n.
NoId == 0

\* Outcomes of a call into the client library.
OK == "ok"
TRANSPORT_ERRORS ==
    { "EDIDIOConnectionError", "EDIDIOCommunicationError", "EDIDIOTimeoutError" }
UNEXPECTED == "Exception"
Outcomes == {OK} \cup TRANSPORT_ERRORS \cup {UNEXPECTED}

(***************************************************************************)
(* get_message_id_generator: the closure is a counter starting at 0;       *)
(* increment_and_get_id adds one and returns the new value.                *)
(***************************************************************************)
get_message_id_generator == 0

\* The counter is read but the increment is lost.
increment_and_get_id_Lost(current_id) == current_id

increment_and_get_id(current_id) == current_id + 1

\* The id returned by the k-th of successive calls on a counter at current_id.
RECURSIVE NthId(_, _)
NthId(current_id, k) ==
    IF k = 1 THEN increment_and_get_id(current_id)
    ELSE increment_and_get_id(NthId(current_id, k - 1))

(***************************************************************************)
(* ControlFreakLight.__init__                                              *)
(***************************************************************************)
NewLight(client, address, name, protocol, generator, line, stable_id, entry, fresh) ==
    [ client |-> client, address |-> address, name |-> name,
      protocol |-> protocol, line |-> line, generator |-> generator,
      stable_id |-> IF stable_id # NoId THEN stable_id ELSE fresh,
      is_on |-> FALSE,
      brightness |-> INITIAL_BRIGHTNESS,
      rgb_color |-> <<255, 255, 255>>,
      rgbw_color |-> <<255, 255, 255, 255>>,
      color_temp |-> INITIAL_COLOR_TEMP,
      available |-> TRUE,
      entry |-> entry,
      removed |-> FALSE ]

unique_id(light) == <<"control_freak_edidio", light.stable_id>>

(***************************************************************************)
(* Command generation of async_turn_on, step 2: the messages for the       *)
(* light's protocol and state, as (bus, address, command, arg) in the      *)
(* order they are appended; the message id is given when the message is    *)
(* constructed.                                                            *)
(***************************************************************************)
Dali(address, command, arg) ==
    [ bus |-> "dali", address |-> address, command |-> command, arg |-> arg ]

Dmx(channel, level) ==
    [ bus |-> "dmx", address |-> channel, command |-> "DMX_LEVEL", arg |-> level ]

OnDmxRgb(l) ==
    << Dmx(l.address, << ScaleChannel(l.rgb_color[1], l.brightness),
                         ScaleChannel(l.rgb_color[2], l.brightness),
                         ScaleChannel(l.rgb_color[3], l.brightness) >>) >>

OnDmxRgbw(l) ==
    << Dmx(l.address, << ScaleChannel(l.rgbw_color[1], l.brightness),
                         ScaleChannel(l.rgbw_color[2], l.brightness),
                         ScaleChannel(l.rgbw_color[3], l.brightness),
                         ScaleChannel(l.rgbw_color[4], l.brightness) >>) >>

OnDaliRgb(l) ==
    [ i \in 1..3 |->
        Dali(l.address + (i - 1), "DALI_ARC_LEVEL",
             << DaliChannel(ScaleChannel(l.rgb_color[i], l.brightness)) >>) ]

\* r, g, b, w = self._rgbw_color if len(self._rgbw_color) == 4
\*              else (rgb[0], rgb[1], rgb[2], 255)
Rgbw(l) ==
    IF Len(l.rgbw_color) = 4 THEN l.rgbw_color
    ELSE << l.rgb_color[1], l.rgb_color[2], l.rgb_color[3], 255 >>

OnDaliRgbw(l) ==
    [ i \in 1..4 |->
        Dali(l.address + (i - 1), "DALI_ARC_LEVEL",
             << DaliChannel(ScaleChannel(Rgbw(l)[i], l.brightness)) >>) ]

OnDaliDt8Xy(l) ==
    LET xy == rgb_to_xy_16bit(Rgbw(l)[1], Rgbw(l)[2], Rgbw(l)[3])
    IN  << Dali(l.address, "SET_TEMP_X_COORD", << Lsb(xy[1]), Msb(xy[1]) >>),
           Dali(l.address, "SET_TEMP_Y_COORD", << Lsb(xy[2]), Msb(xy[2]) >>),
           Dali(l.address, "DALI_ARC_LEVEL", << DaliArcLevel(l.brightness) >>),
           Dali(l.address, "ACTIVATE", << >>) >>

NoColorTemp == -1

\* The colour is activated before the arc level is sent.
OnDaliDt8Cct_ActivateFirst(l) ==
    IF l.color_temp # NoColorTemp
    THEN LET v == DaliDt8CctValue(l.color_temp)
         IN  << Dali(l.address, "SET_TEMP_COLOUR_TEMPERATURE", << Lsb(v), Msb(v) >>),
                Dali(l.address, "ACTIVATE", << >>),
                Dali(l.address, "DALI_ARC_LEVEL", << DaliArcLevel(l.brightness) >>) >>
    ELSE << >>

OnDaliDt8Cct(l) ==
    IF l.color_temp # NoColorTemp
    THEN LET v == DaliDt8CctValue(l.color_temp)
         IN  << Dali(l.address, "SET_TEMP_COLOUR_TEMPERATURE", << Lsb(v), Msb(v) >>),
                Dali(l.address, "DALI_ARC_LEVEL", << DaliArcLevel(l.brightness) >>),
                Dali(l.address, "ACTIVATE", << >>) >>
    ELSE << >>

OnDaliWhite(l) ==
    << Dali(l.address, "DALI_ARC_LEVEL", << DaliArcLevel(l.brightness) >>) >>

OnDmxWhite(l) == << Dmx(l.address, << l.brightness >>) >>

\* A protocol outside the enumeration generates nothing.
OnCommands_NoFallback(l) ==
    CASE l.protocol = PROTOCOL_DMX_RGB      -> OnDmxRgb(l)
      [] l.protocol = PROTOCOL_DMX_RGBW     -> OnDmxRgbw(l)
      [] l.protocol = PROTOCOL_DALI_RGB     -> OnDaliRgb(l)
      [] l.protocol = PROTOCOL_DALI_RGBW    -> OnDaliRgbw(l)
      [] l.protocol = PROTOCOL_DALI_DT8_XY  -> OnDaliDt8Xy(l)
      [] l.protocol = PROTOCOL_DALI_DT8_CCT -> OnDaliDt8Cct(l)
      [] l.protocol = PROTOCOL_DALI_WHITE   -> OnDaliWhite(l)
      [] l.protocol = PROTOCOL_DMX_WHITE    -> OnDmxWhite(l)
      [] OTHER                              -> << >>

OnCommands(l) ==
    CASE l.protocol = PROTOCOL_DMX_RGB      -> OnDmxRgb(l)
      [] l.protocol = PROTOCOL_DMX_RGBW     -> OnDmxRgbw(l)
      [] l.protocol = PROTOCOL_DALI_RGB     -> OnDaliRgb(l)
      [] l.protocol = PROTOCOL_DALI_RGBW    -> OnDaliRgbw(l)
      [] l.protocol = PROTOCOL_DALI_DT8_XY  -> OnDaliDt8Xy(l)
      [] l.protocol = PROTOCOL_DALI_DT8_CCT -> OnDaliDt8Cct(l)
      [] l.protocol = PROTOCOL_DALI_WHITE   -> OnDaliWhite(l)
      [] l.protocol = PROTOCOL_DMX_WHITE    -> OnDmxWhite(l)
      [] OTHER                              -> OnDaliWhite(l)

(***************************************************************************)
(* Command generation of async_turn_off.                                   *)
(***************************************************************************)
\* The white channel of a DALI RGBW light is left out.
OffCommands_WithoutWhite(l) ==
    CASE l.protocol = PROTOCOL_DMX_RGB   -> << Dmx(l.address, <<0, 0, 0>>) >>
      [] l.protocol = PROTOCOL_DMX_RGBW  -> << Dmx(l.address, <<0, 0, 0, 0>>) >>
      [] l.protocol = PROTOCOL_DMX_WHITE -> << Dmx(l.address, <<0>>) >>
      [] l.protocol \in { PROTOCOL_DALI_RGB, PROTOCOL_DALI_RGBW } ->
            [ i \in 1..3 |-> Dali(l.address + (i - 1), "DALI_ARC_LEVEL", <<0>>) ]
      [] OTHER                           -> << Dali(l.address, "DALI_ARC_LEVEL", <<0>>) >>

OffCommands(l) ==
    CASE l.protocol = PROTOCOL_DMX_RGB   -> << Dmx(l.address, <<0, 0, 0>>) >>
      [] l.protocol = PROTOCOL_DMX_RGBW  -> << Dmx(l.address, <<0, 0, 0, 0>>) >>
      [] l.protocol = PROTOCOL_DMX_WHITE -> << Dmx(l.address, <<0>>) >>
      [] l.protocol \in { PROTOCOL_DALI_DT8_XY, PROTOCOL_DALI_DT8_CCT,
                          PROTOCOL_DALI_WHITE }
                                         -> << Dali(l.address, "DALI_ARC_LEVEL", <<0>>) >>
      [] l.protocol = PROTOCOL_DALI_RGB  ->
            [ i \in 1..3 |-> Dali(l.address + (i - 1), "DALI_ARC_LEVEL", <<0>>) ]
      [] l.protocol = PROTOCOL_DALI_RGBW ->
            [ i \in 1..4 |-> Dali(l.address + (i - 1), "DALI_ARC_LEVEL", <<0>>) ]
      [] OTHER                           -> << Dali(l.address, "DALI_ARC_LEVEL", <<0>>) >>

(***************************************************************************)
(* Construction of the messages: each constructor call draws the next id   *)
(* from the light's generator (the argument is evaluated before the call). *)
(***************************************************************************)
Construct(l, c, message_id) ==
    IF c.bus = "dmx"
    THEN create_dmx_message(message_id, 0, DMX_UNIVERSE_MASK, c.address, 1,
                            c.arg, DMX_FADE_TIME)
    ELSE create_dali_message(message_id, l.line, c.address, c.command, c.arg)

\* Each message is put in front of the list instead of behind it.
Constructed_InFront(l, commands, current_id, n) ==
    [ k \in 1..n |->
        Construct(l, commands[n + 1 - k], NthId(current_id, n + 1 - k)) ]

\* The first n commands constructed, with the counter at current_id before.
Constructed(l, commands, current_id, n) ==
    [ k \in 1..n |-> Construct(l, commands[k], NthId(current_id, k)) ]

(***************************************************************************)
(* Inputs.                                                                 *)
(***************************************************************************)
\* entry.data: a host of "" stands for a missing host.
EntryDatas ==
    { [host |-> "192.168.1.200", port |-> 1234], [host |-> "", port |-> 1234] }

LightData(name, address, protocol, line, id) ==
    [ name |-> name, address |-> address, protocol |-> protocol,
      line |-> line, id |-> id ]

\* The light list of an entry: either one light of any protocol, or a DALI
\* light on line 2, a record without an id (which the platform skips) and a
\* DMX light.
OptionChoices ==
    { [ e \in Entries |-> << LightData("a", 10, p, 1, 1) >> ] : p \in AllProtocols }
    \cup
    { [ e \in Entries |->
          << LightData("c", 30, PROTOCOL_DALI_WHITE, 2, 2),
             [name |-> "b", address |-> 20, protocol |-> PROTOCOL_DALI_WHITE],
             LightData("d", 1, PROTOCOL_DMX_WHITE, 1, 3) >> ] }

\* The keyword arguments of a turn-on call.
Requests ==
    { << >>,
      [brightness |-> 128],
      [rgb_color |-> <<255, 0, 0>>],
      [rgbw_color |-> <<0, 0, 255, 10>>],
      [color_temp_kelvin |-> 4000] }

Has(kwargs, key) == key \in DOMAIN kwargs

\* ControlFreakLight.supported_color_modes; every mode includes brightness.
supported_color_modes(protocol) ==
    IF protocol \in {PROTOCOL_DALI_RGB, PROTOCOL_DMX_RGB} THEN {"rgb"}
    ELSE IF protocol \in {PROTOCOL_DALI_RGBW, PROTOCOL_DMX_RGBW, PROTOCOL_DALI_DT8_XY}
    THEN {"rgbw"}
    ELSE IF protocol = PROTOCOL_DALI_DT8_CCT THEN {"color_temp"}
    ELSE {"brightness"}

\* The light service of the host drops the colour arguments that the
\* supported colour modes of the entity do not cover.
Accepted(protocol, kwargs) ==
    /\ Has(kwargs, "rgb_color") => "rgb" \in supported_color_modes(protocol)
    /\ Has(kwargs, "rgbw_color") => "rgbw" \in supported_color_modes(protocol)
    /\ Has(kwargs, "color_temp_kelvin") => "color_temp" \in supported_color_modes(protocol)

\* The turn-on calls of the generation specification: every brightness of the host's
\* scale, with a colour or a colour temperature where the colour mode of the
\* protocol takes one.  The host passes only colour temperatures within the
\* kelvin limits of the entity.
Levels == 0..HA_MAX

Colours == { <<255, 0, 0>>, <<51, 2, 128>>, <<1, 255, 0>>, <<0, 0, 0>>,
             <<255, 255, 255>> }

White == 200

Kelvins == { MIN_COLOR_TEMP_KELVIN, 2700, 4000, MAX_COLOR_TEMP_KELVIN }

GenRequests(protocol) ==
    IF "rgb" \in supported_color_modes(protocol)
    THEN { [brightness |-> b, rgb_color |-> c] : b \in Levels, c \in Colours }
    ELSE IF "rgbw" \in supported_color_modes(protocol)
    THEN { [brightness |-> b, rgbw_color |-> c \o << White >>] :
              b \in Levels, c \in Colours }
    ELSE IF "color_temp" \in supported_color_modes(protocol)
    THEN { [brightness |-> b, color_temp_kelvin |-> k] : b \in Levels, k \in Kelvins }
         \cup { [brightness |-> b] : b \in Levels }
    ELSE { [brightness |-> b] : b \in Levels }

(***************************************************************************)
(* The wizards.  A flow object holds the fields its constructor sets; the  *)
(* model adds                                                              *)
(*   step    the step_id of the form the host shows, which names the       *)
(*           handler the next submission goes to; "new" before the first   *)
(*           call, "create_entry" or "abort" once the flow has ended       *)
(*   errors  the errors["base"] of the form shown, "" when there is none   *)
(*   forms   the user_input of each submission the handler stored          *)
(*   entry   the data and options passed to async_create_entry             *)
(*   calls   the calls of hass.config_entries the handler that ran last     *)
(*           made, in order                                                *)
(***************************************************************************)
\* The user_input of a call that carries none.
NoInput == [none |-> TRUE]

\* current_light_index = None
NoIndex == -1

\* ControlFreakConfigFlow.__init__; a host of "" and a port of 0 are None.
ControlFreakConfigFlow ==
    [ lights |-> << >>, host |-> "", port |-> 0, num_lights |-> 0,
      current_light_index |-> 0,
      step |-> "new", forms |-> << >>,
      entry |-> [data |-> [host |-> "", port |-> 0], options |-> << >>] ]

\* ControlFreakOptionsFlowHandler.__init__, for entry e; the host makes the
\* object when the user opens the options of the entry.
ControlFreakOptionsFlowHandler(e) ==
    [ config_entry |-> e, lights |-> options[e],
      current_light_index |-> NoIndex,
      step |-> "new", errors |-> "", calls |-> << >> ]

\* No options flow is open.
NoOptionsFlow ==
    [ config_entry |-> 0, lights |-> << >>, current_light_index |-> NoIndex,
      step |-> "closed", errors |-> "", calls |-> << >> ]

(***************************************************************************)
(* Init: no entry is set up.                                               *)
(***************************************************************************)
Op(op, target, input, result) ==
    [op |-> op, target |-> target, input |-> input, result |-> result]

NoOp == Op("none", 0, "none", "none")

Init ==
    /\ entry_data \in [Entries -> EntryDatas]
    /\ options \in OptionChoices
    /\ hass_data = [e \in Entries |-> NoClient]
    /\ clients = << >>
    /\ forwarded = [e \in Entries |-> 0]
    /\ generators = << >>
    /\ lights = << >>
    /\ tasks = << >>
    /\ uuids = 0
    /\ reloads = << >>
    /\ lastOp = NoOp
    /\ config_flow = ControlFreakConfigFlow
    /\ options_flow = NoOptionsFlow

(***************************************************************************)
(* light.py async_setup_entry: one generator per call, shared by the       *)
(* lights the call creates; a light_data without id, address, name or      *)
(* protocol is skipped.                                                    *)
(***************************************************************************)
Complete(light_data) ==
    /\ "id" \in DOMAIN light_data
    /\ "address" \in DOMAIN light_data
    /\ "name" \in DOMAIN light_data
    /\ "protocol" \in DOMAIN light_data

RECURSIVE EntitiesToAdd(_, _, _, _, _)
EntitiesToAdd(lights_config, client, generator, entry, drawn) ==
    IF lights_config = << >> THEN << >>
    ELSE LET light_data == Head(lights_config)
             fresh == light_data.id = NoId
         IN  IF ~Complete(light_data)
             THEN EntitiesToAdd(Tail(lights_config), client, generator, entry, drawn)
             ELSE << NewLight(client, light_data.address, light_data.name,
                              light_data.protocol, generator,
                              IF "line" \in DOMAIN light_data
                              THEN light_data.line ELSE DEFAULT_LINE,
                              light_data.id, entry,
                              -(drawn + 1)) >>
                  \o EntitiesToAdd(Tail(lights_config), client, generator, entry,
                                   IF fresh THEN drawn + 1 ELSE drawn)

light_async_setup_entry(e, client) ==
    LET generator == Len(generators) + 1
        added == EntitiesToAdd(options[e], client, generator, e, uuids)
    IN  /\ generators' = Append(generators, get_message_id_generator)
        /\ lights' = lights \o added
        /\ uuids' = uuids + Cardinality({ i \in 1..Len(options[e]) :
                                            /\ Complete(options[e][i])
                                            /\ options[e][i].id = NoId })

(***************************************************************************)
(* __init__.py async_setup_entry.  The host calls it for an entry that is  *)
(* not loaded.  connect is the outcome of client.connect().                *)
(***************************************************************************)
NewClient(host, port) ==
    [ host |-> host, port |-> port, connect_calls |-> 1, disconnect_calls |-> 0 ]

\* A failed connect ends the setup: the exception is not caught.
async_setup_entry_ConnectRequired(e, connect) ==
    /\ Len(clients) < MaxSetups
    /\ UNCHANGED << entry_data, options, tasks >>
    /\ LET host == entry_data[e].host
           port == entry_data[e].port
           client == Len(clients) + 1
       IN  IF host = "" \/ port = 0
           THEN /\ lastOp' = Op("setup_entry", e, "none", "False")
                /\ UNCHANGED << hass_data, clients, forwarded, generators,
                                lights, uuids >>
           ELSE /\ clients' = Append(clients, NewClient(host, port))
                /\ IF connect = OK
                   THEN /\ hass_data' = [hass_data EXCEPT ![e] = client]
                        /\ forwarded' = [forwarded EXCEPT ![e] = @ + 1]
                        /\ light_async_setup_entry(e, client)
                        /\ lastOp' = Op("setup_entry", e, connect, "True")
                   ELSE /\ lastOp' = Op("setup_entry", e, connect, "raised")
                        /\ UNCHANGED << hass_data, forwarded, generators,
                                        lights, uuids >>

async_setup_entry(e, connect) ==
    /\ Len(clients) < MaxSetups
    /\ UNCHANGED << entry_data, options, tasks >>
    /\ LET host == entry_data[e].host
           port == entry_data[e].port
           client == Len(clients) + 1
       IN  IF host = "" \/ port = 0
           THEN /\ lastOp' = Op("setup_entry", e, "none", "False")
                /\ UNCHANGED << hass_data, clients, forwarded, generators,
                                lights, uuids >>
           ELSE /\ clients' = Append(clients, NewClient(host, port))
                /\ IF connect \in {OK, "EDIDIOConnectionError", "EDIDIOTimeoutError"}
                   THEN /\ hass_data' = [hass_data EXCEPT ![e] = client]
                        /\ forwarded' = [forwarded EXCEPT ![e] = @ + 1]
                        /\ light_async_setup_entry(e, client)
                        /\ lastOp' = Op("setup_entry", e, connect, "True")
                   ELSE /\ lastOp' = Op("setup_entry", e, connect, "raised")
                        /\ UNCHANGED << hass_data, forwarded, generators,
                                        lights, uuids >>

(***************************************************************************)
(* __init__.py async_unload_entry.  unload_ok is what the host's           *)
(* async_unload_platforms returns; when it is true the host has removed    *)
(* the entities of the entry.                                              *)
(***************************************************************************)
\* The client is disconnected and the data removed whatever the platforms did.
async_unload_entry_Unconditional(e, unload_ok) ==
    /\ hass_data[e] # NoClient
    /\ UNCHANGED << entry_data, options, forwarded, generators, tasks, uuids >>
    /\ lastOp' = Op("unload_entry", e, IF unload_ok THEN "True" ELSE "False",
                     IF unload_ok THEN "True" ELSE "False")
    /\ hass_data' = [hass_data EXCEPT ![e] = NoClient]
    /\ clients' = [clients EXCEPT ![hass_data[e]] =
                     [@ EXCEPT !.disconnect_calls = @ + 1]]
    /\ IF unload_ok
       THEN lights' = [ l \in 1..Len(lights) |->
                         IF lights[l].entry = e
                         THEN [lights[l] EXCEPT !.removed = TRUE]
                         ELSE lights[l] ]
       ELSE lights' = lights

async_unload_entry(e, unload_ok) ==
    /\ hass_data[e] # NoClient
    /\ UNCHANGED << entry_data, options, forwarded, generators, tasks, uuids >>
    /\ lastOp' = Op("unload_entry", e, IF unload_ok THEN "True" ELSE "False",
                     IF unload_ok THEN "True" ELSE "False")
    /\ IF unload_ok
       THEN /\ hass_data' = [hass_data EXCEPT ![e] = NoClient]
            /\ clients' = [clients EXCEPT ![hass_data[e]] =
                             [@ EXCEPT !.disconnect_calls = @ + 1]]
            /\ lights' = [ l \in 1..Len(lights) |->
                             IF lights[l].entry = e
                             THEN [lights[l] EXCEPT !.removed = TRUE]
                             ELSE lights[l] ]
       ELSE UNCHANGED << hass_data, clients, lights >>

(***************************************************************************)
(* __init__.py async_reload_entry: await async_unload_entry, then await    *)
(* async_setup_entry, whatever the unload returned.  A reload is           *)
(*   kind   "async_reload_entry" or "options_update_listener"              *)
(*   entry  the entry it was called with                                   *)
(*   pc     "setup" between the two awaits, then "done", or "raised" when  *)
(*          async_setup_entry raised                                       *)
(*   calls  the calls it made, in order, each with the entry passed        *)
(***************************************************************************)
Call(function, e) == [function |-> function, entry |-> e]

Reload(kind, e, pc, calls) ==
    [kind |-> kind, entry |-> e, pc |-> pc, calls |-> calls]

async_reload_entry(e, unload_ok) ==
    /\ Len(reloads) < MaxReloads
    /\ async_unload_entry(e, unload_ok)
    /\ reloads' = Append(reloads,
                     Reload("async_reload_entry", e, "setup",
                            << Call("async_unload_entry", e) >>))

\* The entry is set up again only when it was unloaded.
async_reload_entry_resume_IfUnloaded(r, connect) ==
    /\ r \in 1..Len(reloads)
    /\ reloads[r].pc = "setup"
    /\ IF hass_data[reloads[r].entry] = NoClient
       THEN /\ async_setup_entry(reloads[r].entry, connect)
            /\ reloads' = [reloads EXCEPT
                  ![r].pc = IF lastOp'.result = "raised" THEN "raised" ELSE "done",
                  ![r].calls = Append(@, Call("async_setup_entry", reloads[r].entry))]
       ELSE /\ reloads' = [reloads EXCEPT ![r].pc = "done"]
            /\ lastOp' = NoOp
            /\ UNCHANGED << entry_data, options, hass_data, clients, forwarded,
                            generators, lights, tasks, uuids >>

async_reload_entry_resume(r, connect) ==
    /\ r \in 1..Len(reloads)
    /\ reloads[r].pc = "setup"
    /\ async_setup_entry(reloads[r].entry, connect)
    /\ reloads' = [reloads EXCEPT
          ![r].pc = IF lastOp'.result = "raised" THEN "raised" ELSE "done",
          ![r].calls = Append(@, Call("async_setup_entry", reloads[r].entry))]

(***************************************************************************)
(* __init__.py options_update_listener: the host calls it, with the entry, *)
(* after it has changed the options of an entry that is set up; it awaits  *)
(* hass.config_entries.async_reload(entry_id), which the host carries out. *)
(***************************************************************************)
options_update_listener(e, new_options) ==
    /\ hass_data[e] # NoClient
    /\ Len(reloads) < MaxReloads
    /\ new_options # options[e]
    /\ options' = [options EXCEPT ![e] = new_options]
    /\ reloads' = Append(reloads,
                     Reload("options_update_listener", e, "done",
                            << Call("hass.config_entries.async_reload", e) >>))
    /\ lastOp' = Op("options_update_listener", e, "none", "returned")
    /\ UNCHANGED << entry_data, hass_data, clients, forwarded, generators,
                    lights, tasks, uuids >>

(***************************************************************************)
(* ControlFreakLight.async_turn_on, step 1: the state update from kwargs.  *)
(***************************************************************************)
Slice3(color) == SubSeq(color, 1, Min(3, Len(color)))

\* A light that is off at brightness 0 keeps brightness 0.
WithBrightness_NoDefault(l, kwargs) ==
    IF Has(kwargs, "brightness")
    THEN [l EXCEPT !.brightness = kwargs.brightness]
    ELSE l

\* The brightness override is dropped.
WithBrightness_Dropped(l, kwargs) ==
    IF ~l.is_on /\ l.brightness = 0 THEN [l EXCEPT !.brightness = 255] ELSE l

WithBrightness(l, kwargs) ==
    IF Has(kwargs, "brightness")
    THEN [l EXCEPT !.brightness = kwargs.brightness]
    ELSE IF ~l.is_on /\ l.brightness = 0
         THEN [l EXCEPT !.brightness = 255]
         ELSE l

WithRgb(l, kwargs) ==
    IF Has(kwargs, "rgb_color") THEN [l EXCEPT !.rgb_color = kwargs.rgb_color] ELSE l

WithRgbw(l, kwargs) ==
    IF Has(kwargs, "rgbw_color")
    THEN [l EXCEPT !.rgbw_color = kwargs.rgbw_color,
                   !.rgb_color = Slice3(kwargs.rgbw_color)]
    ELSE l

WithColorTemp(l, kwargs) ==
    IF Has(kwargs, "color_temp_kelvin")
    THEN [l EXCEPT !.color_temp =
                      color_temperature_kelvin_to_mired(kwargs.color_temp_kelvin)]
    ELSE l

UpdateState(l, kwargs) ==
    WithColorTemp(WithRgbw(WithRgb(WithBrightness(l, kwargs), kwargs), kwargs), kwargs)

(***************************************************************************)
(* A call of async_turn_on or async_turn_off.                              *)
(*   state    "sending" while the call awaits send_dali_commands_sequence, *)
(*            "done" once it has returned; an exception that leaves the    *)
(*            hook would make it "raised", which no path of the hooks does *)
(*   result   "pending", "ok", "transport", "unexpected", or "nothing"     *)
(*            when no command was generated                                *)
(*   ids      the ids the call drew from the generator, in order           *)
(*   sent     the argument of each send_dali_commands_sequence call        *)
(***************************************************************************)
Task(kind, l, kwargs, state, result, ids, sent) ==
    [ kind |-> kind, light |-> l, kwargs |-> kwargs, state |-> state,
      result |-> result, ids |-> ids, sent |-> sent ]

Classify(error) == IF error \in TRANSPORT_ERRORS THEN "transport" ELSE "unexpected"

\* Steps 2 and 3 of a hook up to the await: `commands` are constructed one by
\* one; when the constructor of command `fail` raises `error` (fail = 0: none
\* raises) the except clause marks the light unavailable and the hook returns;
\* with no command the hook returns; else the sequence is sent.
Generate(kind, l, kwargs, updated, commands, fail, error) ==
    LET g == updated.generator
        n == Len(commands)
    IN  /\ fail \in 0..n
        /\ (fail = 0) = (error = OK)
        /\ IF fail > 0
           THEN /\ generators' = [generators EXCEPT ![g] = NthId(@, fail)]
                /\ lights' = [lights EXCEPT ![l] = [updated EXCEPT !.available = FALSE]]
                /\ tasks' = Append(tasks,
                       Task(kind, l, kwargs, "done", Classify(error),
                            [k \in 1..fail |-> NthId(generators[g], k)], << >>))
           ELSE IF n = 0
           THEN /\ generators' = generators
                /\ lights' = [lights EXCEPT ![l] = updated]
                /\ tasks' = Append(tasks,
                       Task(kind, l, kwargs, "done", "nothing", << >>, << >>))
           ELSE /\ generators' = [generators EXCEPT ![g] = NthId(@, n)]
                /\ lights' = [lights EXCEPT ![l] = updated]
                /\ tasks' = Append(tasks,
                       Task(kind, l, kwargs, "sending", "pending",
                            [k \in 1..n |-> NthId(generators[g], k)],
                            << Constructed(updated, commands, generators[g], n) >>))

Callable(l) ==
    /\ l \in 1..Len(lights)
    /\ ~lights[l].removed
    /\ Len(tasks) < MaxTasks

async_turn_on(l, kwargs, fail, error) ==
    /\ Callable(l)
    /\ Accepted(lights[l].protocol, kwargs)
    /\ Generate("on", l, kwargs, UpdateState(lights[l], kwargs),
                OnCommands(UpdateState(lights[l], kwargs)), fail, error)
    /\ lastOp' = Op("turn_on", 0, "none", "none")
    /\ UNCHANGED << reloads, entry_data, options, hass_data, clients, forwarded, uuids >>

\* A send that succeeded marks the light available again.
async_turn_on_resume_Recovers(t, outcome) ==
    /\ t \in 1..Len(tasks)
    /\ tasks[t].kind = "on"
    /\ tasks[t].state = "sending"
    /\ IF outcome = OK
       THEN /\ lights' = [lights EXCEPT ![tasks[t].light].is_on = TRUE,
                                        ![tasks[t].light].available = TRUE]
            /\ tasks' = [tasks EXCEPT ![t].state = "done", ![t].result = "ok"]
       ELSE /\ lights' = [lights EXCEPT ![tasks[t].light].available = FALSE]
            /\ tasks' = [tasks EXCEPT ![t].state = "done",
                                      ![t].result = Classify(outcome)]
    /\ lastOp' = Op("turn_on", 0, "none", "none")
    /\ UNCHANGED << reloads, entry_data, options, hass_data, clients, forwarded,
                    generators, uuids >>

\* The 'on' flag is set whatever the send did.
async_turn_on_resume_AlwaysOn(t, outcome) ==
    /\ t \in 1..Len(tasks)
    /\ tasks[t].kind = "on"
    /\ tasks[t].state = "sending"
    /\ IF outcome = OK
       THEN /\ lights' = [lights EXCEPT ![tasks[t].light].is_on = TRUE]
            /\ tasks' = [tasks EXCEPT ![t].state = "done", ![t].result = "ok"]
       ELSE /\ lights' = [lights EXCEPT ![tasks[t].light].available = FALSE,
                                        ![tasks[t].light].is_on = TRUE]
            /\ tasks' = [tasks EXCEPT ![t].state = "done",
                                      ![t].result = Classify(outcome)]
    /\ lastOp' = Op("turn_on", 0, "none", "none")
    /\ UNCHANGED << reloads, entry_data, options, hass_data, clients, forwarded,
                    generators, uuids >>

\* A transport error makes the hook send the sequence again.
async_turn_on_resume_Retry(t, outcome) ==
    /\ t \in 1..Len(tasks)
    /\ tasks[t].kind = "on"
    /\ tasks[t].state = "sending"
    /\ IF outcome = OK
       THEN /\ lights' = [lights EXCEPT ![tasks[t].light].is_on = TRUE]
            /\ tasks' = [tasks EXCEPT ![t].state = "done", ![t].result = "ok"]
       ELSE IF outcome \in TRANSPORT_ERRORS /\ Len(tasks[t].sent) < 2
       THEN /\ lights' = lights
            /\ tasks' = [tasks EXCEPT ![t].sent = Append(@, @[1])]
       ELSE /\ lights' = [lights EXCEPT ![tasks[t].light].available = FALSE]
            /\ tasks' = [tasks EXCEPT ![t].state = "done",
                                      ![t].result = Classify(outcome)]
    /\ lastOp' = Op("turn_on", 0, "none", "none")
    /\ UNCHANGED << reloads, entry_data, options, hass_data, clients, forwarded,
                    generators, uuids >>

\* The resumption of async_turn_on when send_dali_commands_sequence returns
\* or raises.
async_turn_on_resume(t, outcome) ==
    /\ t \in 1..Len(tasks)
    /\ tasks[t].kind = "on"
    /\ tasks[t].state = "sending"
    /\ IF outcome = OK
       THEN /\ lights' = [lights EXCEPT ![tasks[t].light].is_on = TRUE]
            /\ tasks' = [tasks EXCEPT ![t].state = "done", ![t].result = "ok"]
       ELSE /\ lights' = [lights EXCEPT ![tasks[t].light].available = FALSE]
            /\ tasks' = [tasks EXCEPT ![t].state = "done",
                                      ![t].result = Classify(outcome)]
    /\ lastOp' = Op("turn_on", 0, "none", "none")
    /\ UNCHANGED << reloads, entry_data, options, hass_data, clients, forwarded,
                    generators, uuids >>

(***************************************************************************)
(* ControlFreakLight.async_turn_off.                                       *)
(***************************************************************************)
async_turn_off(l, fail, error) ==
    /\ Callable(l)
    /\ Generate("off", l, << >>, lights[l], OffCommands(lights[l]), fail, error)
    /\ lastOp' = Op("turn_off", 0, "none", "none")
    /\ UNCHANGED << reloads, entry_data, options, hass_data, clients, forwarded, uuids >>

\* Only the transport errors are caught: any other exception leaves the hook.
async_turn_off_resume_Uncaught(t, outcome) ==
    /\ t \in 1..Len(tasks)
    /\ tasks[t].kind = "off"
    /\ tasks[t].state = "sending"
    /\ IF outcome = OK
       THEN /\ lights' = [lights EXCEPT ![tasks[t].light].is_on = FALSE,
                                        ![tasks[t].light].brightness = 0]
            /\ tasks' = [tasks EXCEPT ![t].state = "done", ![t].result = "ok"]
       ELSE IF outcome \in TRANSPORT_ERRORS
       THEN /\ lights' = [lights EXCEPT ![tasks[t].light].available = FALSE]
            /\ tasks' = [tasks EXCEPT ![t].state = "done", ![t].result = "transport"]
       ELSE /\ lights' = lights
            /\ tasks' = [tasks EXCEPT ![t].state = "raised", ![t].result = "unexpected"]
    /\ lastOp' = Op("turn_off", 0, "none", "none")
    /\ UNCHANGED << reloads, entry_data, options, hass_data, clients, forwarded,
                    generators, uuids >>

async_turn_off_resume(t, outcome) ==
    /\ t \in 1..Len(tasks)
    /\ tasks[t].kind = "off"
    /\ tasks[t].state = "sending"
    /\ IF outcome = OK
       THEN /\ lights' = [lights EXCEPT ![tasks[t].light].is_on = FALSE,
                                        ![tasks[t].light].brightness = 0]
            /\ tasks' = [tasks EXCEPT ![t].state = "done", ![t].result = "ok"]
       ELSE /\ lights' = [lights EXCEPT ![tasks[t].light].available = FALSE]
            /\ tasks' = [tasks EXCEPT ![t].state = "done",
                                      ![t].result = Classify(outcome)]
    /\ lastOp' = Op("turn_off", 0, "none", "none")
    /\ UNCHANGED << reloads, entry_data, options, hass_data, clients, forwarded,
                    generators, uuids >>

(***************************************************************************)
(* ControlFreakLight.async_update.  The connection state of the client     *)
(* belongs to the client library: read is what reading                     *)
(* self._client.connected gives, "True", "False" or an exception.          *)
(***************************************************************************)
Reads == {"True", "False"} \cup TRANSPORT_ERRORS \cup {UNEXPECTED}

\* A light whose client is not connected is also reported off.
async_update_ClearsOn(l, read) ==
    /\ l \in 1..Len(lights)
    /\ ~lights[l].removed
    /\ lights' = [lights EXCEPT ![l].available = (read = "True"),
                                ![l].is_on = IF read = "True" THEN @ ELSE FALSE]
    /\ lastOp' = Op("update", l,
                     IF read \in {"True", "False"} THEN read ELSE Classify(read),
                     "returned")
    /\ UNCHANGED << reloads, entry_data, options, hass_data, clients, forwarded,
                    generators, tasks, uuids >>

async_update(l, read) ==
    /\ l \in 1..Len(lights)
    /\ ~lights[l].removed
    /\ lights' = [lights EXCEPT ![l].available = (read = "True")]
    /\ lastOp' = Op("update", l,
                     IF read \in {"True", "False"} THEN read ELSE Classify(read),
                     "returned")
    /\ UNCHANGED << reloads, entry_data, options, hass_data, clients, forwarded,
                    generators, tasks, uuids >>

(***************************************************************************)
(* Specifications.  Spec is the life of the lights of the entries that     *)
(* are set up; SpecEntry adds the unloading of an entry and leaves out     *)
(* the refresh probe.                                                      *)
(***************************************************************************)
MaxCommands == 4

\* The host sets up an entry that is not loaded, and unloads a loaded one.
Setup ==
    \E e \in Entries, connect \in Outcomes :
        /\ hass_data[e] = NoClient
        /\ async_setup_entry(e, connect)
        /\ UNCHANGED << reloads, flows >>

Unload ==
    \E e \in Entries, unload_ok \in BOOLEAN :
        /\ async_unload_entry(e, unload_ok)
        /\ UNCHANGED << reloads, flows >>

TurnOn ==
    \E l \in 1..Len(lights), kwargs \in Requests, fail \in 0..MaxCommands,
       error \in Outcomes :
        async_turn_on(l, kwargs, fail, error) /\ UNCHANGED flows

TurnOnResume ==
    \E t \in 1..Len(tasks), outcome \in Outcomes :
        async_turn_on_resume(t, outcome) /\ UNCHANGED flows

TurnOff ==
    \E l \in 1..Len(lights), fail \in 0..MaxCommands, error \in Outcomes :
        async_turn_off(l, fail, error) /\ UNCHANGED flows

TurnOffResume ==
    \E t \in 1..Len(tasks), outcome \in Outcomes :
        async_turn_off_resume(t, outcome) /\ UNCHANGED flows

Update ==
    \E l \in 1..Len(lights), read \in Reads :
        async_update(l, read) /\ UNCHANGED flows

Next == Setup \/ TurnOn \/ TurnOnResume \/ TurnOff \/ TurnOffResume \/ Update

Spec == Init /\ [][Next]_vars

NextEntry == Setup \/ Unload \/ TurnOn \/ TurnOnResume \/ TurnOff \/ TurnOffResume

SpecEntry == Init /\ [][NextEntry]_vars

\* The life cycle of an entry with its reloads: no call of a light.
ReloadEntry ==
    \E e \in Entries, unload_ok \in BOOLEAN :
        async_reload_entry(e, unload_ok) /\ UNCHANGED flows

ReloadEntryResume ==
    \E r \in 1..Len(reloads), connect \in Outcomes :
        async_reload_entry_resume(r, connect) /\ UNCHANGED flows

OptionsUpdate ==
    \E e \in Entries, choice \in OptionChoices :
        options_update_listener(e, choice[e]) /\ UNCHANGED flows

NextReload == Setup \/ Unload \/ ReloadEntry \/ ReloadEntryResume \/ OptionsUpdate

SpecReload == Init /\ [][NextReload]_vars

\* The command generation on its own: one call on a new light, with any
\* brightness and the colours of GenRequests, whose constructors do not raise.
TurnOnGen ==
    \E l \in 1..Len(lights) :
        \E kwargs \in GenRequests(lights[l].protocol) :
            /\ tasks = << >>
            /\ async_turn_on(l, kwargs, 0, OK)
            /\ UNCHANGED flows

TurnOffGen ==
    \E l \in 1..Len(lights) :
        /\ tasks = << >>
        /\ async_turn_off(l, 0, OK)
        /\ UNCHANGED flows

NextGen == Setup \/ TurnOnGen \/ TurnOnResume \/ TurnOffGen \/ TurnOffResume

SpecGen == Init /\ [][NextGen]_vars

(***************************************************************************)
(* config_flow.py: the wizard of the initial setup.  The host calls        *)
(* async_step_user without input, shows the form the handler returns and   *)
(* calls the handler named by the form's step_id with each submission.     *)
(* The form asks for num_lights >= 1; the handler also takes 0.            *)
(***************************************************************************)
MaxNumLights == 2

FlowHosts == {"192.168.1.200", "192.168.1.201"}

UserInputs ==
    { [host |-> h, port |-> 1234, num_lights |-> n] :
        h \in FlowHosts, n \in 0..MaxNumLights }

LightForms ==
    { [name |-> n, address |-> 5, protocol |-> p, line |-> 1] :
        n \in {"a", "e"}, p \in {PROTOCOL_DALI_WHITE, PROTOCOL_DMX_RGB} }

\* _abort_if_unique_id_configured, after async_set_unique_id("host-port"):
\* an entry that this flow made for the same host and port exists.
Configured(host, port) ==
    \E e \in Entries : entry_data[e].host = host /\ entry_data[e].port = port

\* async_create_entry(data = host and port, options = the light list), or
\* the abort of the flow.
Finish(flow, lights_option) ==
    IF Configured(flow.host, flow.port)
    THEN [flow EXCEPT !.step = "abort"]
    ELSE [flow EXCEPT !.step = "create_entry",
                      !.entry = [data |-> [host |-> flow.host, port |-> flow.port],
                                 options |-> lights_option]]

\* One more form is asked for after the last light.
light_details_next_OneMore(flow) ==
    IF flow.current_light_index <= flow.num_lights
    THEN [flow EXCEPT !.step = "light_details"]
    ELSE Finish(flow, flow.lights)

\* async_step_light_details after the input, if any, is stored: the form of
\* the next light, or the end of the flow.
light_details_next(flow) ==
    IF flow.current_light_index < flow.num_lights
    THEN [flow EXCEPT !.step = "light_details"]
    ELSE Finish(flow, flow.lights)

async_step_user(user_input) ==
    /\ config_flow.step \in {"new", "user"}
    /\ (user_input = NoInput) = (config_flow.step = "new")
    /\ IF user_input = NoInput
       THEN config_flow' = [config_flow EXCEPT !.step = "user"]
       ELSE LET flow == [config_flow EXCEPT !.host = user_input.host,
                                            !.port = user_input.port,
                                            !.num_lights = user_input.num_lights,
                                            !.current_light_index = 0]
            IN  config_flow' = IF flow.num_lights = 0
                               THEN Finish(flow, << >>)
                               ELSE light_details_next(flow)
    /\ lastOp' = Op("async_step_user", 0, "none", config_flow'.step)
    /\ UNCHANGED << reloads, entry_data, options, hass_data, clients, forwarded,
                    generators, lights, tasks, uuids, options_flow >>

async_step_light_details(user_input) ==
    /\ config_flow.step = "light_details"
    /\ LET light_id == -(uuids + 1)
           flow == [config_flow EXCEPT
                      !.lights = Append(@, LightData(user_input.name,
                                                     user_input.address,
                                                     user_input.protocol,
                                                     user_input.line, light_id)),
                      !.forms = Append(@, user_input),
                      !.current_light_index = @ + 1]
       IN  config_flow' = light_details_next(flow)
    /\ uuids' = uuids + 1
    /\ lastOp' = Op("async_step_light_details", 0, "none", config_flow'.step)
    /\ UNCHANGED << reloads, entry_data, options, hass_data, clients, forwarded,
                    generators, lights, tasks, options_flow >>

StepUser == \E user_input \in UserInputs \cup {NoInput} : async_step_user(user_input)

StepLightDetails == \E user_input \in LightForms : async_step_light_details(user_input)

NextConfigFlow == StepUser \/ StepLightDetails

SpecConfigFlow == Init /\ [][NextConfigFlow]_vars

(***************************************************************************)
(* options_flow.py: the wizard that manages the light list of an entry.    *)
(* The host makes the handler when the user opens the options (closing the *)
(* dialog at any step drops it), calls async_step_init without input and   *)
(* then, with each submission, the handler named by the form shown.        *)
(***************************************************************************)
MaxAdds == 1

\* The forms submitted to add_light and edit_light.
EditForms == { form \in LightForms : form.protocol = PROTOCOL_DMX_RGB }

MenuChoices == {"reconfigure_connection", "manage_lights"}

LightActions == {"edit", "add", "remove"}

\* light.get(CONF_LIGHT_NAME)
Name(light) == IF "name" \in DOMAIN light THEN light.name ELSE "None"

\* self.current_light_index is not None and 0 <= index < len(self.lights)
ValidIndex(flow) ==
    /\ flow.current_light_index # NoIndex
    /\ 0 <= flow.current_light_index
    /\ flow.current_light_index < Len(flow.lights)

\* async_show_form(step_id, errors)
Shown(flow, step_id, errors) == [flow EXCEPT !.step = step_id, !.errors = errors]

\* current_options[CONF_LIGHTS] = self.lights; async_update_entry; async_reload
UpdateAndReload ==
    << "hass.config_entries.async_update_entry", "hass.config_entries.async_reload" >>

\* async_step_manage_lights(): with no light it goes to add_light.
manage_lights_form(flow) ==
    IF flow.lights = << >>
    THEN Shown(flow, "add_light", "")
    ELSE Shown(flow, "manage_lights", "")

\* async_step_edit_light(): an invalid index aborts the flow.
edit_light_form(flow) ==
    IF ~ValidIndex(flow)
    THEN Shown(flow, "abort", "invalid_selection")
    ELSE Shown(flow, "edit_light", "")

\* async_step_remove_light(): an invalid index goes back to manage_lights.
remove_light_form(flow) ==
    IF ~ValidIndex(flow)
    THEN manage_lights_form(flow)
    ELSE Shown(flow, "remove_light", "")

\* The light is replaced by the submitted fields: its id is lost.
Updated_Replaced(light, user_input) ==
    [ k \in {"name", "address", "protocol", "line"} |-> user_input[k] ]

\* light_to_edit.update({name, address, protocol, line}): the id is kept.
Updated(light, user_input) ==
    [ k \in DOMAIN light \cup {"name", "address", "protocol", "line"} |->
        IF k \in {"name", "address", "protocol", "line"}
        THEN user_input[k] ELSE light[k] ]

\* self.lights.pop(light_index), with the index from 0
Pop(seq, index) == SubSeq(seq, 1, index) \o SubSeq(seq, index + 2, Len(seq))

\* What the steps of the options flow leave alone.
FlowFrame ==
    UNCHANGED << reloads, hass_data, clients, forwarded, generators, lights,
                 tasks, config_flow >>

async_get_options_flow(e) ==
    /\ options_flow' = ControlFreakOptionsFlowHandler(e)
    /\ lastOp' = Op("async_get_options_flow", e, "none", "new")
    /\ FlowFrame
    /\ UNCHANGED << entry_data, options, uuids >>

async_step_init(user_input) ==
    /\ options_flow.step \in {"new", "init"}
    /\ (user_input = NoInput) = (options_flow.step = "new")
    /\ LET flow == [options_flow EXCEPT !.calls = << >>]
       IN  options_flow' =
              IF user_input = NoInput THEN Shown(flow, "init", "")
              ELSE IF user_input.menu_choice = "reconfigure_connection"
                   THEN Shown(flow, "reconfigure_connection", "")
                   ELSE IF user_input.menu_choice = "manage_lights"
                        THEN manage_lights_form(flow)
                        ELSE Shown(flow, "init", "")
    /\ lastOp' = Op("async_step_init", options_flow.config_entry, "none",
                     options_flow'.step)
    /\ FlowFrame
    /\ UNCHANGED << entry_data, options, uuids >>

\* The handler returns async_create_entry(title="", data={}), which ends the
\* flow; what the host does with the result is the host's.
async_step_reconfigure_connection(user_input) ==
    /\ options_flow.step = "reconfigure_connection"
    /\ entry_data' = [entry_data EXCEPT ![options_flow.config_entry] =
                         [host |-> user_input.host, port |-> user_input.port]]
    /\ options_flow' =
          [options_flow EXCEPT
              !.step = "create_entry", !.errors = "",
              !.calls = << "hass.config_entries.async_update_entry" >>]
    /\ lastOp' = Op("async_step_reconfigure_connection",
                     options_flow.config_entry, "none", "create_entry")
    /\ FlowFrame
    /\ UNCHANGED << options, uuids >>

async_step_manage_lights(user_input) ==
    /\ options_flow.step = "manage_lights"
    /\ LET flow == [options_flow EXCEPT !.calls = << >>]
           selected == [flow EXCEPT !.current_light_index = user_input.light_index]
       IN  options_flow' =
              IF flow.lights = << >> THEN Shown(flow, "add_light", "")
              ELSE IF user_input.action = "edit"
              THEN IF "light_index" \notin DOMAIN user_input
                   THEN Shown(flow, "manage_lights", "no_light_selected")
                   ELSE edit_light_form(selected)
              ELSE IF user_input.action = "add"
              THEN Shown(flow, "add_light", "")
              ELSE IF "light_index" \notin DOMAIN user_input
                   THEN Shown(flow, "manage_lights", "no_light_selected")
                   ELSE remove_light_form(selected)
    /\ lastOp' = Op("async_step_manage_lights", options_flow.config_entry,
                     user_input.action, options_flow'.step)
    /\ FlowFrame
    /\ UNCHANGED << entry_data, options, uuids >>

async_step_edit_light(user_input) ==
    /\ options_flow.step = "edit_light"
    /\ LET flow == [options_flow EXCEPT !.calls = << >>]
           e == flow.config_entry
           light_index == flow.current_light_index
           duplicate == \E i \in 1..Len(flow.lights) :
                           /\ i - 1 # light_index
                           /\ Name(flow.lights[i]) = user_input.name
           edited == [flow.lights EXCEPT
                         ![light_index + 1] = Updated(@, user_input)]
       IN  IF ~ValidIndex(flow)
           THEN /\ options_flow' = Shown(flow, "abort", "invalid_selection")
                /\ options' = options
           ELSE IF duplicate
           THEN /\ options_flow' = Shown(flow, "edit_light", "duplicate_light_name")
                /\ options' = options
           ELSE /\ options_flow' =
                      manage_lights_form([flow EXCEPT !.lights = edited,
                                                      !.calls = UpdateAndReload])
                /\ options' = [options EXCEPT ![e] = edited]
    /\ lastOp' = Op("async_step_edit_light", options_flow.config_entry,
                     user_input.name, options_flow'.step)
    /\ FlowFrame
    /\ UNCHANGED << entry_data, uuids >>

\* The name of the new light is not compared with the names of the list.
async_step_add_light_Unchecked(user_input) ==
    /\ options_flow.step = "add_light"
    /\ uuids < MaxAdds
    /\ LET flow == [options_flow EXCEPT !.calls = << >>]
           e == flow.config_entry
           new_light_id == -(uuids + 1)
           added == Append(flow.lights,
                           LightData(user_input.name, user_input.address,
                                     user_input.protocol, user_input.line,
                                     new_light_id))
       IN  /\ options_flow' =
                 manage_lights_form([flow EXCEPT !.lights = added,
                                                 !.calls = UpdateAndReload])
           /\ options' = [options EXCEPT ![e] = added]
           /\ uuids' = uuids + 1
    /\ lastOp' = Op("async_step_add_light", options_flow.config_entry,
                     user_input.name, options_flow'.step)
    /\ FlowFrame
    /\ UNCHANGED entry_data

async_step_add_light(user_input) ==
    /\ options_flow.step = "add_light"
    /\ LET flow == [options_flow EXCEPT !.calls = << >>]
           e == flow.config_entry
           duplicate == \E i \in 1..Len(flow.lights) :
                           Name(flow.lights[i]) = user_input.name
           new_light_id == -(uuids + 1)
           added == Append(flow.lights,
                           LightData(user_input.name, user_input.address,
                                     user_input.protocol, user_input.line,
                                     new_light_id))
       IN  IF duplicate
           THEN /\ options_flow' = Shown(flow, "add_light", "duplicate_light_name")
                /\ UNCHANGED << options, uuids >>
           ELSE /\ uuids < MaxAdds
                /\ options_flow' =
                      manage_lights_form([flow EXCEPT !.lights = added,
                                                      !.calls = UpdateAndReload])
                /\ options' = [options EXCEPT ![e] = added]
                /\ uuids' = uuids + 1
    /\ lastOp' = Op("async_step_add_light", options_flow.config_entry,
                     user_input.name, options_flow'.step)
    /\ FlowFrame
    /\ UNCHANGED entry_data

\* The light is removed whatever the confirmation says.
async_step_remove_light_Unconfirmed(user_input) ==
    /\ options_flow.step = "remove_light"
    /\ LET flow == [options_flow EXCEPT !.calls = << >>]
           e == flow.config_entry
           popped == Pop(flow.lights, flow.current_light_index)
       IN  IF ~ValidIndex(flow)
           THEN /\ options_flow' = manage_lights_form(flow)
                /\ options' = options
           ELSE /\ options_flow' =
                      manage_lights_form([flow EXCEPT !.lights = popped,
                                                      !.calls = UpdateAndReload])
                /\ options' = [options EXCEPT ![e] = popped]
    /\ lastOp' = Op("async_step_remove_light", options_flow.config_entry,
                     IF user_input.confirm_remove THEN "True" ELSE "False",
                     options_flow'.step)
    /\ FlowFrame
    /\ UNCHANGED << entry_data, uuids >>

async_step_remove_light(user_input) ==
    /\ options_flow.step = "remove_light"
    /\ LET flow == [options_flow EXCEPT !.calls = << >>]
           e == flow.config_entry
           popped == Pop(flow.lights, flow.current_light_index)
       IN  IF ~ValidIndex(flow)
           THEN /\ options_flow' = manage_lights_form(flow)
                /\ options' = options
           ELSE IF user_input.confirm_remove
           THEN /\ options_flow' =
                      manage_lights_form([flow EXCEPT !.lights = popped,
                                                      !.calls = UpdateAndReload])
                /\ options' = [options EXCEPT ![e] = popped]
           ELSE /\ options_flow' = manage_lights_form(flow)
                /\ options' = options
    /\ lastOp' = Op("async_step_remove_light", options_flow.config_entry,
                     IF user_input.confirm_remove THEN "True" ELSE "False",
                     options_flow'.step)
    /\ FlowFrame
    /\ UNCHANGED << entry_data, uuids >>

OpenOptions == \E e \in Entries : async_get_options_flow(e)

StepInit ==
    \E user_input \in {NoInput} \cup { [menu_choice |-> c] : c \in MenuChoices } :
        async_step_init(user_input)

StepReconfigureConnection ==
    \E host \in FlowHosts :
        async_step_reconfigure_connection([host |-> host, port |-> 1234])

\* The index submitted is one of the list, or the one past its end, or none.
StepManageLights ==
    \E action \in LightActions :
        \/ async_step_manage_lights([action |-> action])
        \/ \E i \in 0..Len(options_flow.lights) :
              async_step_manage_lights([action |-> action, light_index |-> i])

StepEditLight == \E user_input \in EditForms : async_step_edit_light(user_input)

StepAddLight == \E user_input \in EditForms : async_step_add_light(user_input)

StepRemoveLight ==
    \E confirm \in BOOLEAN : async_step_remove_light([confirm_remove |-> confirm])

\* A light list as the config flow makes it when two forms carry the same
\* name: async_step_light_details compares no names.
SameNameChoices ==
    { [ e \in Entries |->
          << LightData("a", 10, PROTOCOL_DMX_RGB, 1, 4),
             LightData("a", 11, PROTOCOL_DMX_RGB, 1, 5) >> ] }

\* The options flow of an entry on its own, on the light lists of Init and
\* on one with a name used twice.
InitOptionsFlow ==
    /\ entry_data \in [Entries -> EntryDatas]
    /\ options \in OptionChoices \cup SameNameChoices
    /\ hass_data = [e \in Entries |-> NoClient]
    /\ clients = << >>
    /\ forwarded = [e \in Entries |-> 0]
    /\ generators = << >>
    /\ lights = << >>
    /\ tasks = << >>
    /\ uuids = 0
    /\ reloads = << >>
    /\ lastOp = NoOp
    /\ config_flow = ControlFreakConfigFlow
    /\ options_flow = NoOptionsFlow

NextOptionsFlow ==
    \/ OpenOptions \/ StepInit \/ StepReconfigureConnection \/ StepManageLights
    \/ StepEditLight \/ StepAddLight \/ StepRemoveLight

SpecOptionsFlow == InitOptionsFlow /\ [][NextOptionsFlow]_vars

\* The light list of an entry under the options flow, with the host setting
\* the entry up and unloading it at any time (a reload is the two in turn):
\* the connect succeeds and the platforms unload.  The entry has a host and
\* starts with the three-light list or with one DMX RGB light.
SetupConnected ==
    \E e \in Entries :
        /\ hass_data[e] = NoClient
        /\ async_setup_entry(e, OK)
        /\ UNCHANGED << reloads, flows >>

UnloadDone ==
    \E e \in Entries :
        /\ async_unload_entry(e, TRUE)
        /\ UNCHANGED << reloads, flows >>

InitStableId ==
    /\ Init
    /\ \A e \in Entries :
          /\ entry_data[e].host # ""
          /\ Len(options[e]) = 3 \/ options[e][1].protocol = PROTOCOL_DMX_RGB

NextStableId ==
    \/ OpenOptions \/ StepInit \/ StepManageLights
    \/ StepEditLight \/ StepAddLight \/ StepRemoveLight
    \/ SetupConnected \/ UnloadDone

SpecStableId == InitStableId /\ [][NextStableId]_vars

(***************************************************************************)
(* Vocabulary of the properties.                                           *)
(***************************************************************************)
\* Call t of the hooks starts in this step.
Starts(t) == Len(tasks') = Len(tasks) + 1 /\ t = Len(tasks')

\* Call t resumes from its await in this step.
Resumes(t) ==
    /\ t \in 1..Len(tasks)
    /\ tasks[t].state = "sending"
    /\ tasks'[t] # tasks[t]

\* Call t ends in this step: at once, or on resumption.
Ends(t) ==
    /\ tasks'[t].state # "sending"
    /\ Starts(t) \/ Resumes(t)

\* The colour and brightness part of a light.
Fields(l) == << l.brightness, l.rgb_color, l.rgbw_color, l.color_temp >>

(***************************************************************************)
(* C1: the 'on' flag of a light turns true only in the step in which a     *)
(* turn-on call of that light resumes from a send that succeeded; a        *)
(* turn-on call that ends otherwise (the send or a constructor raised, or  *)
(* nothing was generated) leaves the flag as it was, and a new light is    *)
(* off.                                                                    *)
(***************************************************************************)
C1_OnOnlyAfterSuccessfulSend ==
    [][ /\ \A l \in 1..Len(lights) :
             (lights'[l].is_on /\ ~lights[l].is_on) =>
                \E t \in 1..Len(tasks) :
                    /\ tasks[t].kind = "on"
                    /\ tasks[t].light = l
                    /\ tasks[t].state = "sending"
                    /\ Len(tasks[t].sent) = 1
                    /\ tasks'[t].state = "done"
                    /\ tasks'[t].result = "ok"
        /\ \A t \in 1..Len(tasks') :
             (Ends(t) /\ tasks'[t].kind = "on" /\ tasks'[t].result # "ok") =>
                lights'[tasks'[t].light].is_on = lights[tasks'[t].light].is_on
        /\ \A l \in (Len(lights) + 1)..Len(lights') : ~lights'[l].is_on
      ]_vars

\* One light is on after a send that succeeded while another, whose send
\* failed, is still off.
C1_Witness ==
    \E t1, t2 \in 1..Len(tasks) :
        /\ tasks[t1].kind = "on" /\ tasks[t1].result = "ok"
        /\ lights[tasks[t1].light].is_on
        /\ tasks[t2].kind = "on" /\ tasks[t2].result = "transport"
        /\ Len(tasks[t2].sent) = 1
        /\ ~lights[tasks[t2].light].is_on

(***************************************************************************)
(* C3: when the send of a turn-on or turn-off call raises a connection,    *)
(* communication or timeout error, the call ends there: the light is       *)
(* unavailable, its 'on' flag and brightness are as before, no id is       *)
(* drawn and nothing is sent again; no call ever calls                     *)
(* send_dali_commands_sequence more than once.                             *)
(***************************************************************************)
C3_TransportErrorAbortsWithoutRetry ==
    [][ /\ \A t \in 1..Len(tasks') : Len(tasks'[t].sent) <= 1
        /\ \A t \in 1..Len(tasks) :
             (Resumes(t) /\ tasks'[t].result = "transport") =>
                LET l == tasks[t].light
                IN  /\ tasks'[t].state = "done"
                    /\ tasks'[t].sent = tasks[t].sent
                    /\ ~lights'[l].available
                    /\ lights'[l].is_on = lights[l].is_on
                    /\ Fields(lights'[l]) = Fields(lights[l])
                    /\ generators' = generators
      ]_vars

\* A turn-off of a light that is on failed in its send: the light is still
\* on, and unavailable.
C3_Witness ==
    \E t \in 1..Len(tasks) :
        /\ tasks[t].kind = "off"
        /\ tasks[t].state = "done"
        /\ tasks[t].result = "transport"
        /\ Len(tasks[t].sent) = 1
        /\ lights[tasks[t].light].is_on
        /\ lights[tasks[t].light].brightness > 0
        /\ ~lights[tasks[t].light].available

(***************************************************************************)
(* C4: an exception outside the three transport errors, raised by a        *)
(* message constructor or by the send of a turn-on or turn-off call, or    *)
(* by the read of the refresh probe, does not leave the hook: the call     *)
(* ends as returned, the light is unavailable and its 'on' flag is as      *)
(* before (a turn-off does not zero the brightness either).                *)
(***************************************************************************)
C4_UnexpectedErrorIsContained ==
    [][ /\ \A t \in 1..Len(tasks') : tasks'[t].state \in {"sending", "done"}
        /\ \A t \in 1..Len(tasks') :
             (Ends(t) /\ tasks'[t].result = "unexpected") =>
                LET l == tasks'[t].light
                IN  /\ tasks'[t].state = "done"
                    /\ ~lights'[l].available
                    /\ lights'[l].is_on = lights[l].is_on
                    /\ tasks'[t].kind = "off" =>
                          lights'[l].brightness = lights[l].brightness
                    /\ Resumes(t) => tasks'[t].sent = tasks[t].sent
        /\ lastOp'.op = "update" =>
             /\ lastOp'.result = "returned"
             /\ lastOp'.input = "unexpected" => ~lights'[lastOp'.target].available
      ]_vars

\* One call ended on an unexpected error of a constructor, another on an
\* unexpected error of the send.
C4_Witness ==
    \E t1, t2 \in 1..Len(tasks) :
        /\ tasks[t1].result = "unexpected" /\ tasks[t1].sent = << >>
        /\ tasks[t1].ids # << >>
        /\ tasks[t2].result = "unexpected" /\ Len(tasks[t2].sent) = 1
        /\ tasks[t1].state = "done" /\ tasks[t2].state = "done"
        /\ ~lights[tasks[t1].light].available

(***************************************************************************)
(* C5: a turn-on call writes the overrides of its request into the state   *)
(* in the step that generates and sends (the 'on' flag not changing in     *)
(* that step), and a turn-on call that ends without success leaves         *)
(* brightness, rgb, rgbw, color_temp and the 'on' flag as they are: the    *)
(* overrides are not rolled back.                                          *)
(***************************************************************************)
C5_OverridesWrittenBeforeSendAndKept ==
    [][ \A t \in 1..Len(tasks') :
          /\ (Starts(t) /\ tasks'[t].kind = "on") =>
                LET l == tasks'[t].light
                    kwargs == tasks'[t].kwargs
                IN  /\ lights'[l].is_on = lights[l].is_on
                    /\ Has(kwargs, "brightness") =>
                          lights'[l].brightness = kwargs.brightness
                    /\ (Has(kwargs, "rgb_color") /\ ~Has(kwargs, "rgbw_color")) =>
                          lights'[l].rgb_color = kwargs.rgb_color
                    /\ Has(kwargs, "rgbw_color") =>
                          lights'[l].rgbw_color = kwargs.rgbw_color
                    /\ Has(kwargs, "color_temp_kelvin") =>
                          lights'[l].color_temp = 1000000 \div kwargs.color_temp_kelvin
          /\ (Resumes(t) /\ tasks'[t].kind = "on" /\ tasks'[t].result # "ok") =>
                LET l == tasks'[t].light
                IN  /\ Fields(lights'[l]) = Fields(lights[l])
                    /\ lights'[l].is_on = lights[l].is_on
      ]_vars

\* A turn-on with a brightness override failed in its send: the light holds
\* the requested brightness and is still off.
C5_Witness ==
    \E t \in 1..Len(tasks) :
        /\ tasks[t].kind = "on"
        /\ tasks[t].state = "done"
        /\ tasks[t].result = "transport"
        /\ Len(tasks[t].sent) = 1
        /\ Has(tasks[t].kwargs, "brightness")
        /\ lights[tasks[t].light].brightness = tasks[t].kwargs.brightness
        /\ lights[tasks[t].light].brightness # INITIAL_BRIGHTNESS
        /\ ~lights[tasks[t].light].is_on

(***************************************************************************)
(* C2: the ids handed out, in the order of the calls that drew them.       *)
(* tasks is in the order in which the hooks were called, and a hook draws  *)
(* all its ids before it awaits.                                           *)
(***************************************************************************)
RECURSIVE Handed(_, _)
Handed(ts, G) ==
    IF Len(ts) = 0 THEN << >>
    ELSE (IF lights[Head(ts).light].generator \in G
          THEN [k \in 1..Len(Head(ts).ids) |-> Head(ts).ids[k]]
          ELSE << >>)
         \o Handed(Tail(ts), G)

StrictlyIncreasing(seq) ==
    \A i, j \in 1..Len(seq) : i < j => seq[i] < seq[j]

C6_NoMutationWhileSuspended ==
    [][ \A t \in 1..Len(tasks) :
          (tasks[t].state = "sending" /\ tasks'[t].state = "sending") =>
             LET l == tasks[t].light
             IN  /\ lights'[l].is_on = lights[l].is_on
                 /\ Fields(lights'[l]) = Fields(lights[l])
      ]_vars

(***************************************************************************)
(* C7: a step of the refresh probe draws no id, constructs and sends       *)
(* nothing, leaves every light but its own untouched and changes of its    *)
(* own light only the availability, which becomes what the client          *)
(* reported for its connection (false when the read raised).               *)
(***************************************************************************)
C7_RefreshOnlySetsAvailability ==
    [][ lastOp'.op = "update" =>
          LET l == lastOp'.target
          IN  /\ generators' = generators
              /\ tasks' = tasks
              /\ clients' = clients
              /\ hass_data' = hass_data
              /\ Len(lights') = Len(lights)
              /\ \A k \in 1..Len(lights) : k # l => lights'[k] = lights[k]
              /\ [lights'[l] EXCEPT !.available = lights[l].available] = lights[l]
              /\ lights'[l].available = (lastOp'.input = "True")
      ]_vars

\* The probe found the client of a light that is on, at half brightness,
\* not connected.
C7_Witness ==
    /\ lastOp.op = "update"
    /\ lastOp.input = "False"
    /\ lights[lastOp.target].is_on
    /\ lights[lastOp.target].brightness = 128
    /\ ~lights[lastOp.target].available

(***************************************************************************)
(* C8: the messages of a call, by protocol, as (address offset, command)   *)
(* in the order of the source.                                             *)
(***************************************************************************)
Arc(offset) == << offset, "DALI_ARC_LEVEL" >>

ExpectedOn(protocol) ==
    CASE protocol \in {PROTOCOL_DMX_WHITE, PROTOCOL_DMX_RGB, PROTOCOL_DMX_RGBW}
                                          -> << <<0, "DMX_LEVEL">> >>
      [] protocol = PROTOCOL_DALI_RGB     -> << Arc(0), Arc(1), Arc(2) >>
      [] protocol = PROTOCOL_DALI_RGBW    -> << Arc(0), Arc(1), Arc(2), Arc(3) >>
      [] protocol = PROTOCOL_DALI_DT8_XY  ->
            << <<0, "SET_TEMP_X_COORD">>, <<0, "SET_TEMP_Y_COORD">>, Arc(0),
               <<0, "ACTIVATE">> >>
      [] protocol = PROTOCOL_DALI_DT8_CCT ->
            << <<0, "SET_TEMP_COLOUR_TEMPERATURE">>, Arc(0), <<0, "ACTIVATE">> >>
      [] OTHER                            -> << Arc(0) >>

ExpectedOff(protocol) ==
    CASE protocol \in {PROTOCOL_DMX_WHITE, PROTOCOL_DMX_RGB, PROTOCOL_DMX_RGBW}
                                       -> << <<0, "DMX_LEVEL">> >>
      [] protocol = PROTOCOL_DALI_RGB  -> << Arc(0), Arc(1), Arc(2) >>
      [] protocol = PROTOCOL_DALI_RGBW -> << Arc(0), Arc(1), Arc(2), Arc(3) >>
      [] OTHER                         -> << Arc(0) >>

\* C8: a call that reached its send has called send_dali_commands_sequence
\* exactly once, no call more than once; the sequence sent holds one message
\* per id the call drew, the k-th message carrying the k-th id drawn, the ids
\* increasing along the sequence, and the messages are those of the protocol
\* in the order of their generation.
C8_OneSendInGenerationOrder ==
    \A t \in 1..Len(tasks) :
        LET task == tasks[t]
            l == lights[task.light]
            expected == IF task.kind = "on" THEN ExpectedOn(l.protocol)
                        ELSE ExpectedOff(l.protocol)
        IN  /\ Len(task.sent) <= 1
            /\ (task.state = "sending" \/ task.result = "ok") => Len(task.sent) = 1
            /\ Len(task.sent) = 1 =>
                  LET messages == task.sent[1]
                  IN  /\ Len(messages) = Len(task.ids)
                      /\ Len(messages) = Len(expected)
                      /\ \A k \in 1..Len(messages) :
                            /\ messages[k].message_id = task.ids[k]
                            /\ messages[k].address = l.address + expected[k][1]
                            /\ messages[k].command = expected[k][2]
                            /\ \A j \in 1..(k - 1) :
                                  messages[j].message_id < messages[k].message_id

\* A turn-on of a DT8 xy light is suspended in its one send, of four
\* messages.
C8_Witness ==
    \E t \in 1..Len(tasks) :
        /\ tasks[t].kind = "on"
        /\ tasks[t].state = "sending"
        /\ lights[tasks[t].light].protocol = PROTOCOL_DALI_DT8_XY
        /\ Len(tasks[t].sent) = 1
        /\ Len(tasks[t].sent[1]) = 4
        /\ tasks[t].sent[1][4].command = "ACTIVATE"

(***************************************************************************)
(* C9: a step of async_unload_entry returns what the unloading of the      *)
(* platforms returned; when that is true the entry's data is removed from  *)
(* hass.data and disconnect is called once on the client the data held;    *)
(* when it is false hass.data and the clients are unchanged (no            *)
(* disconnect).                                                            *)
(***************************************************************************)
C9_UnloadDisconnectsIffPlatformsUnloaded ==
    [][ lastOp'.op = "unload_entry" =>
          LET e == lastOp'.target
              c == hass_data[e]
          IN  /\ c # NoClient
              /\ lastOp'.result = lastOp'.input
              /\ \A other \in Entries \ {e} : hass_data'[other] = hass_data[other]
              /\ Len(clients') = Len(clients)
              /\ \A k \in 1..Len(clients) : k # c => clients'[k] = clients[k]
              /\ IF lastOp'.input = "True"
                 THEN /\ hass_data'[e] = NoClient
                      /\ clients'[c].disconnect_calls = clients[c].disconnect_calls + 1
                 ELSE /\ lastOp'.result = "False"
                      /\ hass_data'[e] = c
                      /\ clients'[c] = clients[c]
      ]_vars

\* An entry was unloaded: its data is gone and its client was disconnected
\* once.
C9_Witness ==
    /\ lastOp.op = "unload_entry"
    /\ lastOp.result = "True"
    /\ hass_data[lastOp.target] = NoClient
    /\ \E c \in 1..Len(clients) : clients[c].disconnect_calls = 1

(***************************************************************************)
(* C10: a step of async_setup_entry on an entry with host and port, in     *)
(* which connect succeeds or raises a connection or timeout error,         *)
(* returns true, creates one client on which connect was called once,      *)
(* stores it under the entry in hass.data and forwards the setup to the    *)
(* platforms once.                                                         *)
(***************************************************************************)
C10_SetupSurvivesConnectFailure ==
    [][ ( /\ lastOp'.op = "setup_entry"
          /\ entry_data[lastOp'.target].host # ""
          /\ entry_data[lastOp'.target].port # 0
          /\ lastOp'.input \in {OK, "EDIDIOConnectionError", "EDIDIOTimeoutError"} )
        =>
          LET e == lastOp'.target
              client == Len(clients) + 1
          IN  /\ lastOp'.result = "True"
              /\ Len(clients') = client
              /\ \A k \in 1..Len(clients) : clients'[k] = clients[k]
              /\ clients'[client].connect_calls = 1
              /\ clients'[client].disconnect_calls = 0
              /\ clients'[client].host = entry_data[e].host
              /\ clients'[client].port = entry_data[e].port
              /\ hass_data'[e] = client
              /\ forwarded'[e] = forwarded[e] + 1
              /\ \A other \in Entries \ {e} :
                    /\ hass_data'[other] = hass_data[other]
                    /\ forwarded'[other] = forwarded[other]
      ]_vars

\* An entry is set up although connect timed out.
C10_Witness ==
    /\ lastOp.op = "setup_entry"
    /\ lastOp.input = "EDIDIOTimeoutError"
    /\ lastOp.result = "True"
    /\ hass_data[lastOp.target] # NoClient
    /\ clients[hass_data[lastOp.target]].connect_calls = 1
    /\ forwarded[lastOp.target] = 1

(***************************************************************************)
(* C11: the calls of a reload.                                             *)
(***************************************************************************)
ReloadCalls(e) ==
    << Call("async_unload_entry", e), Call("async_setup_entry", e) >>

\* C11: a step that starts async_reload_entry for an entry is a step of
\* async_unload_entry on that entry, and the next step of that reload is a
\* step of async_setup_entry on the same entry, whatever the unload
\* returned, which ends the reload; so that a reload has called
\* async_unload_entry once and then async_setup_entry once, both with its
\* entry, when it ends.  A step of options_update_listener is called for
\* the entry whose options changed and makes one call,
\* hass.config_entries.async_reload with that entry.
C11_ReloadUnloadsThenSetsUpOnce ==
    [][ \A r \in 1..Len(reloads') :
          LET new == reloads'[r]
              e == new.entry
          IN  IF r > Len(reloads)
              THEN IF new.kind = "async_reload_entry"
                   THEN /\ new.pc = "setup"
                        /\ new.calls = SubSeq(ReloadCalls(e), 1, 1)
                        /\ lastOp'.op = "unload_entry" /\ lastOp'.target = e
                   ELSE /\ new.kind = "options_update_listener"
                        /\ new.pc = "done"
                        /\ new.calls = << Call("hass.config_entries.async_reload", e) >>
                        /\ options'[e] # options[e]
                        /\ \A other \in Entries \ {e} : options'[other] = options[other]
              ELSE IF new # reloads[r]
                   THEN /\ reloads[r].kind = "async_reload_entry"
                        /\ reloads[r].pc = "setup"
                        /\ new.pc \in {"done", "raised"}
                        /\ new.kind = reloads[r].kind /\ e = reloads[r].entry
                        /\ new.calls = ReloadCalls(e)
                        /\ lastOp'.op = "setup_entry" /\ lastOp'.target = e
                        /\ (entry_data[e].host # "" /\ entry_data[e].port # 0) =>
                              /\ Len(clients') = Len(clients) + 1
                              /\ clients'[Len(clients')].connect_calls = 1
                   ELSE TRUE
      ]_vars

\* A reload whose unload failed has set the entry up again all the same, and
\* the listener has asked for a reload after an options change.
C11_Witness ==
    \E r1, r2 \in 1..Len(reloads) :
        /\ reloads[r1].kind = "async_reload_entry"
        /\ reloads[r1].pc = "done"
        /\ reloads[r1].calls = ReloadCalls(reloads[r1].entry)
        /\ Len(clients) = 2
        /\ clients[1].disconnect_calls = 0
        /\ hass_data[reloads[r1].entry] = 2
        /\ reloads[r2].kind = "options_update_listener"
        /\ Len(reloads[r2].calls) = 1

(***************************************************************************)
(* The generation claims, C12 to C19, speak of the messages of one call:   *)
(* the sequence the call handed to the client, and the light and the       *)
(* request of the call.                                                    *)
(***************************************************************************)
HasSent(t) == Len(tasks[t].sent) = 1

Messages(t) == tasks[t].sent[1]

LightOf(t) == lights[tasks[t].light]

TurnOnOf(t, protocol) ==
    /\ tasks[t].kind = "on"
    /\ LightOf(t).protocol = protocol
    /\ HasSent(t)

TurnOffOf(t, protocol) ==
    /\ tasks[t].kind = "off"
    /\ LightOf(t).protocol = protocol
    /\ HasSent(t)

\* round(n / d) for n >= 0, d > 0.
Round(n, d) == (2 * n + d) \div (2 * d)

IsArcLevel(message, address, value) ==
    /\ message.bus = "dali"
    /\ message.command = "DALI_ARC_LEVEL"
    /\ message.address = address
    /\ message.arg = << value >>

\* C12: every turn-on of a DALI_WHITE light with brightness b has sent
\* exactly one ARC_LEVEL message, at the light's address, whose value is
\* round(b / 255 * DALI_ARC_LEVEL_MAX): 0 for b = 0 and DALI_ARC_LEVEL_MAX
\* for b = 255.
C12_DaliWhiteLevelIsRounded ==
    \A t \in 1..Len(tasks) :
        TurnOnOf(t, PROTOCOL_DALI_WHITE) /\ Has(tasks[t].kwargs, "brightness") =>
            LET b == tasks[t].kwargs.brightness
            IN  /\ Len(Messages(t)) = 1
                /\ IsArcLevel(Messages(t)[1], LightOf(t).address,
                              Round(b * DALI_ARC_LEVEL_MAX, HA_MAX))
                /\ b = 0 => Messages(t)[1].arg = << 0 >>
                /\ b = HA_MAX => Messages(t)[1].arg = << DALI_ARC_LEVEL_MAX >>

\* C13: every turn-on of a DALI_RGB light with colour rgb and brightness b
\* has sent exactly three ARC_LEVEL messages, at address, address + 1 and
\* address + 2 in this order, the i-th with the value
\* round(rgb[i] * (b / 255) * (DALI_ARC_LEVEL_MAX / 255)).
C13_DaliRgbLevelsAreRounded ==
    \A t \in 1..Len(tasks) :
        ( /\ TurnOnOf(t, PROTOCOL_DALI_RGB)
          /\ Has(tasks[t].kwargs, "brightness")
          /\ Has(tasks[t].kwargs, "rgb_color") ) =>
            LET b == tasks[t].kwargs.brightness
                rgb == tasks[t].kwargs.rgb_color
            IN  /\ Len(Messages(t)) = 3
                /\ \A i \in 1..3 :
                      IsArcLevel(Messages(t)[i], LightOf(t).address + (i - 1),
                                 Round(rgb[i] * b * DALI_ARC_LEVEL_MAX,
                                       HA_MAX * HA_MAX))

\* C14: every turn-off of a DALI_RGBW light whose constructors did not raise
\* has sent exactly four ARC_LEVEL messages with value 0, at address,
\* address + 1, address + 2 and address + 3 in this order, whatever the
\* brightness and the colours of the light.
C14_DaliRgbwOffIsFourZeros ==
    \A t \in 1..Len(tasks) :
        (tasks[t].kind = "off" /\ LightOf(t).protocol = PROTOCOL_DALI_RGBW) =>
            /\ tasks[t].result \notin {"transport", "unexpected"} => HasSent(t)
            /\ HasSent(t) =>
                  /\ Len(Messages(t)) = 4
                  /\ \A i \in 1..4 :
                        IsArcLevel(Messages(t)[i], LightOf(t).address + (i - 1), 0)

\* A DALI_RGBW light that was given another colour is turned off.
C14_Witness ==
    \E t \in 1..Len(tasks) :
        /\ TurnOffOf(t, PROTOCOL_DALI_RGBW)
        /\ Len(Messages(t)) = 4
        /\ LightOf(t).rgbw_color = <<0, 0, 255, 10>>
        /\ LightOf(t).rgb_color = <<0, 0, 255>>
        /\ LightOf(t).is_on

\* The DT8 value of a colour temperature message: low byte + 256 * high byte.
Dt8Value(message) == message.arg[1] + 256 * message.arg[2]

\* The colour temperature, in mireds, a turn-on call sets from its request.
MiredOf(kwargs) == color_temperature_kelvin_to_mired(kwargs.color_temp_kelvin)

\* C15: the DT8 value a turn-on of a DALI_DT8_CCT light sends is 0 when the
\* colour temperature is max_mireds and 65535 when it is min_mireds, lies in
\* 0..65535 for every colour temperature, also one outside
\* [min_mireds, max_mireds], and the mapping from mireds to the value is
\* monotonic: it does not increase as the mireds increase.
C15_CctMapsMaxMiredsToZero ==
    \A t \in 1..Len(tasks) :
        TurnOnOf(t, PROTOCOL_DALI_DT8_CCT) =>
            LET sent == Dt8Value(Messages(t)[1])
            IN  /\ sent \in 0..DT8_MAX
                /\ Has(tasks[t].kwargs, "color_temp_kelvin") =>
                      LET mired == MiredOf(tasks[t].kwargs)
                      IN  /\ mired = max_mireds => sent = 0
                          /\ mired = min_mireds => sent = DT8_MAX
                          /\ \A other \in 1..(2 * max_mireds) :
                                /\ other <= mired => DaliDt8CctValue(other) >= sent
                                /\ other >= mired => DaliDt8CctValue(other) <= sent

\* A DT8 message of a given type at a given address.
IsDt8(message, address, command) ==
    /\ message.bus = "dali"
    /\ message.command = command
    /\ message.address = address

\* bytes is [low byte, high byte] of value, a value of 16 bits.
IsLowHigh(bytes, value) ==
    /\ Len(bytes) = 2
    /\ bytes[1] \in 0..255 /\ bytes[2] \in 0..255
    /\ value \in 0..DT8_MAX
    /\ bytes[1] + 256 * bytes[2] = value

\* level is brightness scaled to the DALI maximum and cut to an integer.
IsScaledBrightness(level, brightness) ==
    /\ HA_MAX * level <= DALI_ARC_LEVEL_MAX * brightness
    /\ DALI_ARC_LEVEL_MAX * brightness < HA_MAX * (level + 1)

\* C16: every turn-on of a DALI_DT8_XY light has sent exactly four messages,
\* all at the light's address, in the order SET_TEMP_X_COORD,
\* SET_TEMP_Y_COORD, ARC_LEVEL, ACTIVATE; the coordinate messages carry
\* [low byte, high byte] of the x and the y that rgb_to_xy_16bit gives for
\* the requested colour, each in 0..65535, and the ARC_LEVEL message the
\* brightness scaled to the DALI maximum; every turn-off of such a light has
\* sent a single ARC_LEVEL 0 message.
C16_Dt8XyFourMessagesInOrder ==
    \A t \in 1..Len(tasks) :
        /\ ( TurnOnOf(t, PROTOCOL_DALI_DT8_XY)
             /\ Has(tasks[t].kwargs, "rgbw_color")
             /\ Has(tasks[t].kwargs, "brightness") ) =>
              LET address == LightOf(t).address
                  rgbw == tasks[t].kwargs.rgbw_color
                  xy == rgb_to_xy_16bit(rgbw[1], rgbw[2], rgbw[3])
                  messages == Messages(t)
              IN  /\ Len(messages) = 4
                  /\ IsDt8(messages[1], address, "SET_TEMP_X_COORD")
                  /\ IsLowHigh(messages[1].arg, xy[1])
                  /\ IsDt8(messages[2], address, "SET_TEMP_Y_COORD")
                  /\ IsLowHigh(messages[2].arg, xy[2])
                  /\ messages[3].command = "DALI_ARC_LEVEL"
                  /\ messages[3].address = address
                  /\ Len(messages[3].arg) = 1
                  /\ IsScaledBrightness(messages[3].arg[1], tasks[t].kwargs.brightness)
                  /\ IsDt8(messages[4], address, "ACTIVATE")
        /\ TurnOffOf(t, PROTOCOL_DALI_DT8_XY) =>
              /\ Len(Messages(t)) = 1
              /\ IsArcLevel(Messages(t)[1], LightOf(t).address, 0)

\* A DT8 xy light is turned on with the colour (51, 2, 128), whose x is
\* 13969 = 145 + 256 * 54 and whose y is 2850 = 34 + 256 * 11.
C16_Witness ==
    \E t \in 1..Len(tasks) :
        /\ TurnOnOf(t, PROTOCOL_DALI_DT8_XY)
        /\ tasks[t].kwargs = [brightness |-> 128, rgbw_color |-> <<51, 2, 128, 200>>]
        /\ Messages(t)[1].arg = <<145, 54>>
        /\ Messages(t)[2].arg = <<34, 11>>
        /\ Messages(t)[3].arg = <<127>>
        /\ tasks[t].result = "ok"

\* C17: every turn-on of a DALI_DT8_CCT light has sent exactly three
\* messages, all at the light's address, in the order
\* SET_TEMP_COLOUR_TEMPERATURE (a 16-bit value as [low byte, high byte]),
\* ARC_LEVEL with the brightness scaled to the DALI maximum, ACTIVATE; every
\* turn-off of such a light has sent a single ARC_LEVEL 0 message.
C17_Dt8CctThreeMessagesInOrder ==
    \A t \in 1..Len(tasks) :
        /\ (TurnOnOf(t, PROTOCOL_DALI_DT8_CCT) /\ Has(tasks[t].kwargs, "brightness")) =>
              LET address == LightOf(t).address
                  messages == Messages(t)
              IN  /\ Len(messages) = 3
                  /\ IsDt8(messages[1], address, "SET_TEMP_COLOUR_TEMPERATURE")
                  /\ IsLowHigh(messages[1].arg, Dt8Value(messages[1]))
                  /\ messages[2].command = "DALI_ARC_LEVEL"
                  /\ messages[2].address = address
                  /\ Len(messages[2].arg) = 1
                  /\ IsScaledBrightness(messages[2].arg[1], tasks[t].kwargs.brightness)
                  /\ IsDt8(messages[3], address, "ACTIVATE")
        /\ TurnOffOf(t, PROTOCOL_DALI_DT8_CCT) =>
              /\ Len(Messages(t)) = 1
              /\ IsArcLevel(Messages(t)[1], LightOf(t).address, 0)

\* A DT8 colour temperature light is turned on at 4000 K (250 mireds, DT8
\* value 18319 = 143 + 256 * 71) and brightness 128, and is on.
C17_Witness ==
    \E t \in 1..Len(tasks) :
        /\ TurnOnOf(t, PROTOCOL_DALI_DT8_CCT)
        /\ tasks[t].kwargs = [brightness |-> 128, color_temp_kelvin |-> 4000]
        /\ Messages(t)[1].arg = <<143, 71>>
        /\ Messages(t)[2].arg = <<127>>
        /\ Messages(t)[3].command = "ACTIVATE"
        /\ LightOf(t).is_on

(***************************************************************************)
(* C18: a turn-on or turn-off call of a light whose protocol is none of    *)
(* the eight enumerated, and whose constructor does not raise, sends       *)
(* exactly one ARC_LEVEL message at the light's address: a turn-on the     *)
(* brightness the light then has, scaled to the DALI maximum as for        *)
(* DALI_WHITE, a turn-off the value 0; when the send succeeds the 'on'     *)
(* flag becomes true after a turn-on and false after a turn-off.           *)
(***************************************************************************)
C18_UnknownProtocolFallsBackToDaliWhite ==
    [][ \A t \in 1..Len(tasks') :
          LET task == tasks'[t]
              l == task.light
          IN  lights'[l].protocol \notin KnownProtocols =>
                /\ (Starts(t) /\ task.result \notin {"transport", "unexpected"}) =>
                      /\ task.state = "sending"
                      /\ Len(task.sent) = 1
                      /\ Len(task.sent[1]) = 1
                      /\ task.sent[1][1].bus = "dali"
                      /\ task.sent[1][1].command = "DALI_ARC_LEVEL"
                      /\ task.sent[1][1].address = lights'[l].address
                      /\ Len(task.sent[1][1].arg) = 1
                      /\ IF task.kind = "on"
                         THEN IsScaledBrightness(task.sent[1][1].arg[1],
                                                 lights'[l].brightness)
                         ELSE task.sent[1][1].arg[1] = 0
                /\ (Resumes(t) /\ task.result = "ok") =>
                      lights'[l].is_on = (task.kind = "on")
      ]_vars

\* A light with the protocol "knx" was turned on at brightness 128 with one
\* ARC_LEVEL 127, is on, and its turn-off has sent one ARC_LEVEL 0.
C18_Witness ==
    \E t1, t2 \in 1..Len(tasks) :
        /\ tasks[t1].light = tasks[t2].light
        /\ LightOf(t1).protocol = UnknownProtocol
        /\ tasks[t1].kind = "on" /\ tasks[t1].result = "ok"
        /\ tasks[t1].kwargs = [brightness |-> 128]
        /\ Messages(t1)[1].arg = <<127>>
        /\ tasks[t2].kind = "off" /\ tasks[t2].state = "sending"
        /\ Messages(t2)[1].arg = <<0>>
        /\ LightOf(t1).is_on

\* A DMX message at a channel with the given levels.
IsDmx(message, channel, levels) ==
    /\ message.bus = "dmx"
    /\ message.address = channel
    /\ message.arg = levels

\* channel * brightness / 255 cut to an integer.
Truncated(channel, brightness) == (channel * brightness) \div HA_MAX

\* C19: every turn-on of a DMX light has sent exactly one DMX message, at
\* the channel that is the light's address: for DMX_WHITE with the level
\* [brightness], for DMX_RGB and DMX_RGBW with one level per colour channel,
\* each channel * brightness / 255 truncated to an integer (the colour
\* itself at brightness 255, zeros at brightness 0); every turn-off has sent
\* one DMX message with as many levels, all 0.
C19_DmxLevelsAreTruncatedProducts ==
    \A t \in 1..Len(tasks) :
        LET kwargs == tasks[t].kwargs
            channel == LightOf(t).address
        IN  /\ (TurnOnOf(t, PROTOCOL_DMX_WHITE) /\ Has(kwargs, "brightness")) =>
                  /\ Len(Messages(t)) = 1
                  /\ IsDmx(Messages(t)[1], channel, << kwargs.brightness >>)
            /\ (TurnOnOf(t, PROTOCOL_DMX_RGB) /\ Has(kwargs, "brightness")
                   /\ Has(kwargs, "rgb_color")) =>
                  /\ Len(Messages(t)) = 1
                  /\ IsDmx(Messages(t)[1], channel,
                           [ i \in 1..3 |->
                               Truncated(kwargs.rgb_color[i], kwargs.brightness) ])
                  /\ kwargs.brightness = HA_MAX =>
                        Messages(t)[1].arg = kwargs.rgb_color
                  /\ kwargs.brightness = 0 => Messages(t)[1].arg = <<0, 0, 0>>
            /\ (TurnOnOf(t, PROTOCOL_DMX_RGBW) /\ Has(kwargs, "brightness")
                   /\ Has(kwargs, "rgbw_color")) =>
                  /\ Len(Messages(t)) = 1
                  /\ IsDmx(Messages(t)[1], channel,
                           [ i \in 1..4 |->
                               Truncated(kwargs.rgbw_color[i], kwargs.brightness) ])
            /\ TurnOffOf(t, PROTOCOL_DMX_WHITE) =>
                  Len(Messages(t)) = 1 /\ IsDmx(Messages(t)[1], channel, <<0>>)
            /\ TurnOffOf(t, PROTOCOL_DMX_RGB) =>
                  Len(Messages(t)) = 1 /\ IsDmx(Messages(t)[1], channel, <<0, 0, 0>>)
            /\ TurnOffOf(t, PROTOCOL_DMX_RGBW) =>
                  Len(Messages(t)) = 1 /\ IsDmx(Messages(t)[1], channel, <<0, 0, 0, 0>>)

\* The x and y a turn-on of a DT8 xy light has sent.
SentXY(t) == << Dt8Value(Messages(t)[1]), Dt8Value(Messages(t)[2]) >>

\* C20: the (x, y) that rgb_to_xy_16bit gives for a colour of integers r, g,
\* b in 0..255, as a turn-on of a DT8 xy light sends it, is the (x, y) of
\* the normalized values r/255, g/255, b/255, also when a channel is 1, and
\* it is (0, 0) for black.
C20_XyOfIntegersIsXyOfNormalized ==
    \A t \in 1..Len(tasks) :
        (TurnOnOf(t, PROTOCOL_DALI_DT8_XY) /\ Has(tasks[t].kwargs, "rgbw_color")) =>
            LET rgbw == tasks[t].kwargs.rgbw_color
            IN  /\ SentXY(t) = XYOfNormalized(<< rgbw[1], rgbw[2], rgbw[3] >>)
                /\ (rgbw[1] = 0 /\ rgbw[2] = 0 /\ rgbw[3] = 0) => SentXY(t) = <<0, 0>>

(***************************************************************************)
(* C21: the rgbw state is kept in sync with rgb: in every reachable state, *)
(* after any sequence of turn-on requests, also those that carry only an   *)
(* rgb override, the first three components of a light's rgbw_color equal  *)
(* its rgb_color.                                                          *)
(***************************************************************************)
C21_RgbwFollowsRgb ==
    \A l \in 1..Len(lights) :
        Slice3(lights[l].rgbw_color) = lights[l].rgb_color

(***************************************************************************)
(* C22: in every reachable state, from construction on, the color_temp of  *)
(* a DALI_DT8_CCT light is a mired value within [min_mireds, max_mireds].  *)
(***************************************************************************)
C22_CctColorTempWithinMireds ==
    \A l \in 1..Len(lights) :
        lights[l].protocol = PROTOCOL_DALI_DT8_CCT =>
            /\ min_mireds <= lights[l].color_temp
            /\ lights[l].color_temp <= max_mireds

(***************************************************************************)
(* ControlFreakLight.set_protocol and set_address: plain methods that      *)
(* write the field of the object in place.  Nothing in the repository      *)
(* calls them; any holder of the entity can.                               *)
(***************************************************************************)
\* The arguments tried: one address, and a DALI and a DMX protocol.
Addresses == {20}

Retypes == {PROTOCOL_DALI_WHITE, PROTOCOL_DMX_RGB}

set_protocol(l, protocol) ==
    /\ l \in 1..Len(lights)
    /\ lights' = [lights EXCEPT ![l].protocol = protocol]
    /\ lastOp' = Op("set_protocol", l, protocol, "none")
    /\ UNCHANGED << reloads, entry_data, options, hass_data, clients,
                    forwarded, generators, tasks, uuids, flows >>

set_address(l, address) ==
    /\ l \in 1..Len(lights)
    /\ lights' = [lights EXCEPT ![l].address = address]
    /\ lastOp' = Op("set_address", l, "none", "none")
    /\ UNCHANGED << reloads, entry_data, options, hass_data, clients,
                    forwarded, generators, tasks, uuids, flows >>

SetProtocol ==
    \E l \in 1..Len(lights), protocol \in Retypes : set_protocol(l, protocol)

SetAddress ==
    \E l \in 1..Len(lights), address \in Addresses : set_address(l, address)

\* The lights of an entry with their mutators and the turn-off hook.
NextMutators == Setup \/ SetProtocol \/ SetAddress \/ TurnOffGen \/ TurnOffResume

SpecMutators == Init /\ [][NextMutators]_vars

(***************************************************************************)
(* C24: the protocol of a light instance is immutable: no step changes the *)
(* protocol of a light that exists, so the protocol that command           *)
(* generation reads is the one given at construction.                      *)
(***************************************************************************)
C24_ProtocolIsImmutable ==
    [][ \A l \in 1..Len(lights) : lights'[l].protocol = lights[l].protocol ]_vars

(***************************************************************************)
(* C25: a turn-off call whose send succeeded sets the 'on' flag to false   *)
(* and brightness to 0 in the step in which it resumes; a turn-off call    *)
(* that ends otherwise leaves both as they are; and a turn-on call without *)
(* brightness override on a light that is off with brightness 0 sets       *)
(* brightness to 255 in the step that generates the commands, which are    *)
(* those of the light at brightness 255.                                   *)
(***************************************************************************)
C25_OffZeroesBrightnessOnDefaultsTo255 ==
    [][ \A t \in 1..Len(tasks') :
          LET l == tasks'[t].light
          IN  /\ (Ends(t) /\ tasks'[t].kind = "off" /\ tasks'[t].result = "ok") =>
                    /\ ~lights'[l].is_on
                    /\ lights'[l].brightness = 0
              /\ (Ends(t) /\ tasks'[t].kind = "off" /\ tasks'[t].result # "ok") =>
                    /\ lights'[l].is_on = lights[l].is_on
                    /\ lights'[l].brightness = lights[l].brightness
              /\ ( /\ Starts(t)
                   /\ tasks'[t].kind = "on"
                   /\ ~Has(tasks'[t].kwargs, "brightness")
                   /\ ~lights[l].is_on
                   /\ lights[l].brightness = 0 ) =>
                    /\ lights'[l].brightness = 255
                    /\ tasks'[t].state = "sending" =>
                          tasks'[t].sent =
                             << Constructed(lights'[l], OnCommands(lights'[l]),
                                            generators[lights[l].generator],
                                            Len(OnCommands(lights'[l]))) >>
      ]_vars

\* A turn-off succeeded and the turn-on that followed, without brightness
\* override, is sending the commands of brightness 255.
C25_Witness ==
    /\ Len(tasks) = 2
    /\ tasks[1].kind = "off"
    /\ tasks[1].result = "ok"
    /\ tasks[2].kind = "on"
    /\ tasks[2].light = tasks[1].light
    /\ ~Has(tasks[2].kwargs, "brightness")
    /\ tasks[2].state = "sending"
    /\ ~lights[tasks[2].light].is_on
    /\ lights[tasks[2].light].brightness = 255

(***************************************************************************)
(* C26: a light that is unavailable becomes available only in a step of    *)
(* the refresh probe of that light that read the client as connected; a    *)
(* turn-on or turn-off call that resumes from a send that succeeded on an  *)
(* unavailable light sets the 'on' flag (true for turn-on, false for       *)
(* turn-off) and leaves the light unavailable.                             *)
(***************************************************************************)
C26_OnlyTheProbeRestoresAvailability ==
    [][ /\ \A l \in 1..Len(lights) :
              (~lights[l].available /\ lights'[l].available) =>
                  /\ lastOp'.op = "update"
                  /\ lastOp'.target = l
                  /\ lastOp'.input = "True"
        /\ \A t \in 1..Len(tasks) :
              ( /\ Resumes(t)
                /\ tasks'[t].result = "ok"
                /\ ~lights[tasks[t].light].available ) =>
                  /\ ~lights'[tasks[t].light].available
                  /\ lights'[tasks[t].light].is_on = (tasks[t].kind = "on")
      ]_vars

\* A send failed, a later turn-on succeeded: the light is on and unavailable.
C26_Witness ==
    /\ Len(tasks) = 2
    /\ tasks[1].result = "transport"
    /\ Len(tasks[1].sent) = 1
    /\ tasks[2].kind = "on"
    /\ tasks[2].result = "ok"
    /\ tasks[2].light = tasks[1].light
    /\ lights[tasks[2].light].is_on
    /\ ~lights[tasks[2].light].available

(***************************************************************************)
(* C27: no client is left without a disconnect call: in every step in      *)
(* which the client stored in hass.data for an entry is replaced or        *)
(* dropped, that client has been disconnected, also when the unload step   *)
(* of a reload failed.                                                     *)
(***************************************************************************)
C27_ReplacedClientIsDisconnected ==
    [][ \A e \in Entries :
          (hass_data[e] # NoClient /\ hass_data'[e] # hass_data[e]) =>
              clients'[hass_data[e]].disconnect_calls >= 1
      ]_vars

(***************************************************************************)
(* C30: once the user form is submitted, the config flow has created the   *)
(* entry exactly when the number of light_details forms submitted equals   *)
(* num_lights.                                                             *)
(***************************************************************************)
C30_EntryCreatedExactlyWhenAllSubmitted ==
    config_flow.step \notin {"new", "user"} =>
        ( config_flow.step = "create_entry"
            <=> Len(config_flow.forms) = config_flow.num_lights )

\* The light of the entry's list made from a submitted form and an id.
Stored(form, id) == LightData(form.name, form.address, form.protocol, form.line, id)

(***************************************************************************)
(* C30, amended: once the user form is submitted, the config flow has      *)
(* ended exactly when the number of light_details forms submitted equals   *)
(* num_lights (at once when it is 0); it has ended by creating the entry,  *)
(* or by an abort when an entry of the same host and port is configured.   *)
(* The light list of a created entry holds exactly num_lights lights, the  *)
(* submitted ones in the order of submission, each with an id of its own   *)
(* drawn from uuid4; before that no entry is created.                      *)
(***************************************************************************)
C30_FlowEndsWhenAllSubmitted ==
    /\ config_flow.step \notin {"new", "user"} =>
          /\ config_flow.step \in {"create_entry", "abort"}
                <=> Len(config_flow.forms) = config_flow.num_lights
          /\ config_flow.step = "abort"
                <=> ( /\ Len(config_flow.forms) = config_flow.num_lights
                      /\ Configured(config_flow.host, config_flow.port) )
    /\ config_flow.step = "create_entry" =>
          LET created == config_flow.entry.options
          IN  /\ Len(created) = config_flow.num_lights
              /\ \A i \in 1..Len(created) :
                    /\ created[i] = Stored(config_flow.forms[i], created[i].id)
                    /\ created[i].id < 0
                    /\ -created[i].id <= uuids
              /\ \A i, j \in 1..Len(created) :
                    created[i].id = created[j].id => i = j
              /\ config_flow.entry.data =
                    [host |-> config_flow.host, port |-> config_flow.port]
    /\ config_flow.step # "create_entry" => config_flow.entry.options = << >>

\* The flow asked for two lights, both forms were submitted and the entry is
\* created with the two lights.
C30_Witness ==
    /\ config_flow.step = "create_entry"
    /\ config_flow.num_lights = 2
    /\ Len(config_flow.forms) = 2
    /\ Len(config_flow.entry.options) = 2

(***************************************************************************)
(* Vocabulary of the options flow properties.                              *)
(***************************************************************************)
\* The handler `op` ran in this step, with lastOp'.input what it was given.
Ran(op) == lastOp'.op = op

\* A light of the flow's list has the name.
SomeHasName(name) ==
    \E i \in 1..Len(options_flow.lights) : Name(options_flow.lights[i]) = name

\* A light other than the selected one has the name.
OtherHasName(name) ==
    \E i \in 1..Len(options_flow.lights) :
        /\ i - 1 # options_flow.current_light_index
        /\ Name(options_flow.lights[i]) = name

\* The selected light has the name.
SelectedHasName(name) ==
    /\ ValidIndex(options_flow)
    /\ Name(options_flow.lights[options_flow.current_light_index + 1]) = name

\* The step shows its form again with duplicate_light_name and changes
\* neither list, with no call of the host.
Rejects(step_id) ==
    /\ options_flow'.step = step_id
    /\ options_flow'.errors = "duplicate_light_name"
    /\ options_flow'.lights = options_flow.lights
    /\ options' = options
    /\ options_flow'.calls = << >>

\* The step stores the flow's new list in the options and reloads.
Stores ==
    /\ options_flow'.errors = ""
    /\ options_flow'.calls = UpdateAndReload
    /\ options'[options_flow.config_entry] = options_flow'.lights

(***************************************************************************)
(* C28: add_light with the name of a light of the list, and edit_light     *)
(* with the name of another light, show duplicate_light_name and leave the *)
(* flow's list and the stored options unchanged, with no reload; an        *)
(* edit_light that keeps the light's own name is accepted.                 *)
(***************************************************************************)
C28_DuplicateNameRejectedOwnNameAccepted ==
    [][ /\ (Ran("async_step_add_light") /\ SomeHasName(lastOp'.input)) =>
              Rejects("add_light")
        /\ (Ran("async_step_edit_light") /\ OtherHasName(lastOp'.input)) =>
              Rejects("edit_light")
        /\ (Ran("async_step_edit_light") /\ SelectedHasName(lastOp'.input)) =>
              /\ Stores
              /\ Name(options_flow'.lights[options_flow.current_light_index + 1])
                    = lastOp'.input
      ]_vars

(***************************************************************************)
(* C28, amended: as C28, but an edit_light that keeps the light's own name *)
(* is accepted when no other light of the list has that name; when another *)
(* light has it too the edit is rejected as a duplicate.                   *)
(***************************************************************************)
C28_DuplicateNameRejected ==
    [][ /\ (Ran("async_step_add_light") /\ SomeHasName(lastOp'.input)) =>
              Rejects("add_light")
        /\ (Ran("async_step_edit_light") /\ OtherHasName(lastOp'.input)) =>
              Rejects("edit_light")
        /\ ( /\ Ran("async_step_edit_light")
             /\ SelectedHasName(lastOp'.input)
             /\ ~OtherHasName(lastOp'.input) ) =>
              /\ Stores
              /\ Name(options_flow'.lights[options_flow.current_light_index + 1])
                    = lastOp'.input
      ]_vars

\* An edit was rejected: the form of edit_light shows duplicate_light_name,
\* the name submitted is that of another light, and the list is the stored one.
C28_Witness ==
    /\ options_flow.step = "edit_light"
    /\ options_flow.errors = "duplicate_light_name"
    /\ lastOp.op = "async_step_edit_light"
    /\ OtherHasName(lastOp.input)
    /\ ~SelectedHasName(lastOp.input)
    /\ options[options_flow.config_entry] = options_flow.lights

\* Neither the flow's list nor the stored options change, and the host is
\* not called.
Untouched ==
    /\ options_flow'.lights = options_flow.lights
    /\ options' = options
    /\ options_flow'.calls = << >>

(***************************************************************************)
(* C29: a remove_light submission with confirm_remove true removes exactly *)
(* the light at the selected index, the others staying as they are and in  *)
(* order, stores the new list in the entry options and then reloads; a     *)
(* submission that does not confirm, and a removal asked for an index out  *)
(* of range, leave the list and the options unchanged; and neither the     *)
(* list of a handler nor the stored list loses a light in any other step.  *)
(***************************************************************************)
C29_RemoveOnlyConfirmedAtIndex ==
    [][ LET index == options_flow.current_light_index
            before == options_flow.lights
            after == options_flow'.lights
        IN  /\ (Ran("async_step_remove_light") /\ lastOp'.input = "True") =>
                  /\ Len(after) = Len(before) - 1
                  /\ \A i \in 1..Len(after) :
                        after[i] = IF i <= index THEN before[i] ELSE before[i + 1]
                  /\ options'[options_flow.config_entry] = after
                  /\ options_flow'.calls = UpdateAndReload
            /\ (Ran("async_step_remove_light") /\ lastOp'.input = "False") =>
                  Untouched
            /\ ( /\ Ran("async_step_manage_lights")
                 /\ lastOp'.input = "remove"
                 /\ ~ValidIndex(options_flow') ) =>
                  /\ Untouched
                  /\ options_flow'.step = "manage_lights"
            /\ ( \/ Len(after) < Len(before) /\ ~Ran("async_get_options_flow")
                 \/ \E e \in Entries : Len(options'[e]) < Len(options[e]) ) =>
                  /\ Ran("async_step_remove_light")
                  /\ lastOp'.input = "True"
      ]_vars

\* The middle light of the three-light list was removed: the first and the
\* third are left, in order, in the flow and in the options.
C29_Witness ==
    /\ lastOp.op = "async_step_remove_light"
    /\ lastOp.input = "True"
    /\ options_flow.current_light_index = 1
    /\ Len(options_flow.lights) = 2
    /\ Name(options_flow.lights[1]) = "c"
    /\ Name(options_flow.lights[2]) = "d"
    /\ options[options_flow.config_entry] = options_flow.lights
    /\ options_flow.calls = UpdateAndReload

\* light_data.get(CONF_LIGHT_ID)
IdOf(light_data) == IF "id" \in DOMAIN light_data THEN light_data.id ELSE NoId

(***************************************************************************)
(* C23: the stable id of a light is assigned when the light is made and    *)
(* never changes.  An edit_light step leaves the id at every position of   *)
(* the stored list as it was; an add_light step leaves the lights of the   *)
(* list as they were and gives the new one an id that no light of the list *)
(* has; a remove_light step leaves the lights that stay as they were; no   *)
(* other step changes the stored list.  Every setup of the entry makes,    *)
(* for each light of the list with a stored id, an entity whose unique id  *)
(* is the domain followed by that id.                                      *)
(***************************************************************************)
C23_StableIdNeverChanges ==
    [][ /\ \A e \in Entries :
              LET before == options[e]
                  after == options'[e]
              IN  after # before =>
                    \/ /\ Ran("async_step_edit_light")
                       /\ Len(after) = Len(before)
                       /\ \A i \in 1..Len(before) :
                             /\ IdOf(after[i]) = IdOf(before[i])
                             /\ ("id" \in DOMAIN after[i]) = ("id" \in DOMAIN before[i])
                    \/ /\ Ran("async_step_add_light")
                       /\ Len(after) = Len(before) + 1
                       /\ SubSeq(after, 1, Len(before)) = before
                       /\ IdOf(after[Len(after)]) # NoId
                       /\ \A i \in 1..Len(before) :
                             IdOf(before[i]) # IdOf(after[Len(after)])
                    \/ /\ Ran("async_step_remove_light")
                       /\ Len(after) = Len(before) - 1
                       /\ \E k \in 1..Len(before) :
                             \A i \in 1..Len(after) :
                                after[i] = IF i < k THEN before[i] ELSE before[i + 1]
        /\ (Ran("setup_entry") /\ lastOp'.result = "True") =>
              LET e == lastOp'.target
                  made == SubSeq(lights', Len(lights) + 1, Len(lights'))
                  stored == SelectSeq(options[e], Complete)
              IN  /\ Len(made) = Len(stored)
                  /\ \A i \in 1..Len(stored) :
                        IdOf(stored[i]) # NoId =>
                            unique_id(made[i]) =
                               << "control_freak_edidio", IdOf(stored[i]) >>
      ]_vars

\* The entry was set up, a light was edited to another name in the options
\* flow, and the entry was set up again: the entity of the second setup has
\* the unique id of the entity of the first, under its new name.
C23_Witness ==
    \E l1, l2 \in 1..Len(lights) :
        /\ l1 < l2
        /\ lights[l1].removed
        /\ ~lights[l2].removed
        /\ lights[l1].client # lights[l2].client
        /\ unique_id(lights[l1]) = unique_id(lights[l2])
        /\ lights[l1].name # lights[l2].name

====
